---- MODULE Spec2Model ----
(***************************************************************************)
(* A model of the netlist design arena (netlist/src/design.rs) and of the  *)
(* rewrite driver (netlist/src/rewrite.rs).                                *)
(*                                                                         *)
(* Cell indices are 0-based as in the Rust code; the cell with index i is  *)
(* the element i + 1 of the sequence `cells`.                              *)
(***************************************************************************)
EXTENDS Integers, Sequences, FiniteSets, TLC

(***************************************************************************)
(* Bounds of the model.                                                    *)
(***************************************************************************)
\* the largest number of arena slots (applied and queued) a design may have
MaxCells == 2
\* the largest number of queued replacements and tombstones
MaxChanges == 2
\* the number of arena slots of the designs compact() is run on
CompactSlots == 3
\* the number of arena slots of the designs iter_cells_topo() is run on
TopoSlots == 4
\* the number of arena slots of the designs a rewrite pass is run on
RewriteSlots == 3
\* the number of times the rules of a pass return a new cell for one visited cell
MaxRestarts == 2

(***************************************************************************)
(* Nets (value.rs).  A net is an index: 0 and 1 are the constants, cell    *)
(* outputs start at FIRST_CELL.  UNDEF is u32::MAX in the code; the model  *)
(* uses the largest 32-bit signed integer, which keeps the one property    *)
(* the code relies on: UNDEF is no cell index and orders after every net.  *)
(***************************************************************************)
ZERO == 0
ONE == 1
UNDEF == 2147483647
FIRST_CELL == 2

is_const(net) == net \in {UNDEF, ZERO, ONE}
from_cell_index(cell_index) == cell_index + FIRST_CELL
as_cell_index(net) == net - FIRST_CELL

(***************************************************************************)
(* Cells.  `len` is the output width, `args` the operand nets in the order *)
(* Cell::visit yields them.  A cell of width n occupies n consecutive      *)
(* slots (one slot when n = 0): the cell itself, then Skip(primary).  The  *)
(* operands of an Aig cell are control nets: `neg` holds their polarities  *)
(* (TRUE for ControlNet::Neg); for every other cell it is empty.           *)
(***************************************************************************)
Void == [kind |-> "Void", args |-> <<>>, len |-> 0, start |-> 0, purity |-> "None", neg |-> <<>>]
Skip(start) == [kind |-> "Skip", args |-> <<>>, len |-> 0, start |-> start, purity |-> "None", neg |-> <<>>]
MkCell(kind, args, len) == [kind |-> kind, args |-> args, len |-> len, start |-> 0, purity |-> "None", neg |-> <<>>]
MkTarget(purity, args, len) == [kind |-> "Target", args |-> args, len |-> len, start |-> 0, purity |-> purity, neg |-> <<>>]

IsLive(cell) == cell.kind \notin {"Void", "Skip"}
output_len(cell) == cell.len

Max(a, b) == IF a >= b THEN a ELSE b
EmptyMap == [x \in {} |-> 0]
MapPut(m, k, v) == [x \in DOMAIN m \cup {k} |-> IF x = k THEN v ELSE m[x]]

\* the cell in slot `index` (0-based)
CellAt(cs, index) == cs[index + 1]
\* the indices of the slots of cs that hold a cell (not Void, not Skip)
LiveIndices(cs) == {i \in 0..(Len(cs) - 1) : IsLive(CellAt(cs, i))}
\* the operand nets of a cell, as a set
ArgSet(cell) == {cell.args[k] : k \in DOMAIN cell.args}
\* the output nets of the cell in slot index
OutputNets(cs, index) == {from_cell_index(index + k) : k \in 0..(output_len(CellAt(cs, index)) - 1)}
\* every net that is an output bit of a live cell of cs
LiveNets(cs) == UNION {OutputNets(cs, i) : i \in LiveIndices(cs)}

VARIABLES
    cells,            \* Design::cells
    added_cells,      \* ChangeQueue::added_cells
    replaced_cells,   \* ChangeQueue::replaced_cells: index -> cell
    unalived_cells,   \* ChangeQueue::unalived_cells
    replaced_nets,    \* ChangeQueue::replaced_nets: net -> net
    pc,               \* position inside apply()/compact(): "idle" between calls
    caller,           \* which operation the running apply() belongs to
    did_change,       \* the local did_change of the running apply()
    hist,             \* history: what the running or last apply()/compact() started from and did
    rewriter          \* the Rewriter of the running pass and the locals of its run() and process_cell()

vars == <<cells, added_cells, replaced_cells, unalived_cells, replaced_nets, pc, caller,
          did_change, hist, rewriter>>
queue == <<added_cells, replaced_cells, unalived_cells, replaced_nets>>

\* hist while no apply() has run since the last queued change
NoHist == [ran |-> FALSE, before |-> <<>>, unalived |-> {}, replaced |-> EmptyMap, applied |-> {},
           premap |-> <<>>, nets |-> EmptyMap, phases |-> <<>>,
           compacted |-> FALSE, uncompacted |-> <<>>, keep |-> {}, net_map |-> EmptyMap,
           sorted |-> FALSE, topo |-> <<>>, original |-> <<>>, visits |-> <<>>, calls |-> <<>>,
           notified |-> {}, ended |-> {}, designs |-> <<>>]

\* Option::None where a cell is expected
NoCell == [kind |-> "None", args |-> <<>>, len |-> 0, start |-> 0, purity |-> "None", neg |-> <<>>]

\* RewriteResult (rewrite.rs:9-14)
ResultNone == [kind |-> "None", cell |-> NoCell, value |-> <<>>]
ResultCell(cell) == [kind |-> "Cell", cell |-> cell, value |-> <<>>]
ResultCellMeta(cell) == [kind |-> "CellMeta", cell |-> cell, value |-> <<>>]
ResultValue(value) == [kind |-> "Value", cell |-> NoCell, value |-> value]

\* the side tables of the rule sets of a pass: LevelAnalysis::levels (level.rs:5-7), the
\* fields of TreeRebalance (tree_rebalance.rs:10-16) and of ChainRebalance
\* (chain_rebalance.rs:65-69)
NoTables == [levels |-> EmptyMap, aig_trees |-> EmptyMap, xor_trees |-> EmptyMap,
             inner_aig |-> {}, inner_xor |-> {}, aig_chains |-> EmptyMap,
             xor_chains |-> EmptyMap]

\* no rewrite pass is running
NoRewriter == [worklist |-> <<>>, item |-> 0, processed |-> {}, cache |-> EmptyMap,
               cell |-> NoCell, output |-> <<>>, replacement_cell |-> NoCell,
               replacement_meta |-> FALSE, rule |-> 0, restarts |-> 0, result |-> ResultNone,
               done |-> FALSE, rules |-> <<>>, tables |-> NoTables]

QueuedChanges == Cardinality(DOMAIN replaced_nets) + Cardinality(DOMAIN replaced_cells)
                 + Cardinality(unalived_cells)

(***************************************************************************)
(* Design::new (design.rs:34-52): no cells, an empty change queue.         *)
(***************************************************************************)
DesignNew ==
    /\ cells = <<>>
    /\ added_cells = <<>>
    /\ replaced_cells = EmptyMap
    /\ unalived_cells = {}
    /\ replaced_nets = EmptyMap
    /\ pc = "idle"
    /\ caller = "none"
    /\ did_change = FALSE
    /\ hist = NoHist
    /\ rewriter = NoRewriter

(***************************************************************************)
(* Design::add_cell (design.rs:91-103): the cell goes to the end of        *)
(* added_cells, followed by output_len - 1 Skip slots; its index counts    *)
(* the applied and the queued slots.                                       *)
(***************************************************************************)
SlotsOf(cell, index) == <<cell>> \o [k \in 1..(output_len(cell) - 1) |-> Skip(index)]

add_cell(cell) ==
    /\ pc = "idle"
    /\ LET index == Len(cells) + Len(added_cells) IN
        /\ index + Max(output_len(cell), 1) <= MaxCells
        /\ added_cells' = added_cells \o SlotsOf(cell, index)
    /\ hist' = NoHist
    /\ UNCHANGED <<cells, replaced_cells, unalived_cells, replaced_nets, pc, caller, did_change>>
    /\ UNCHANGED rewriter

(***************************************************************************)
(* Design::replace_net (design.rs:139-145): nothing when from = to; the    *)
(* assert_eq fails when from_net already has a replacement.                *)
(***************************************************************************)
replace_net(from_net, to_net) ==
    /\ pc = "idle"
    /\ from_net # to_net
    /\ IF from_net \in DOMAIN replaced_nets
       THEN pc' = "panic" /\ UNCHANGED replaced_nets
       ELSE replaced_nets' = MapPut(replaced_nets, from_net, to_net) /\ UNCHANGED pc
    /\ hist' = NoHist
    /\ UNCHANGED <<cells, added_cells, replaced_cells, unalived_cells, caller, did_change>>
    /\ UNCHANGED rewriter

(***************************************************************************)
(* CellRef::replace (design.rs:250-256): nothing when the cell already has *)
(* this representation; the assert fails on a second replacement.          *)
(***************************************************************************)
CellRef_replace(index, to_cell) ==
    /\ pc = "idle"
    /\ index \in LiveIndices(cells)
    /\ CellAt(cells, index) # to_cell
    /\ IF index \in DOMAIN replaced_cells
       THEN pc' = "panic" /\ UNCHANGED replaced_cells
       ELSE replaced_cells' = MapPut(replaced_cells, index, to_cell) /\ UNCHANGED pc
    /\ hist' = NoHist
    /\ UNCHANGED <<cells, added_cells, unalived_cells, replaced_nets, caller, did_change>>
    /\ UNCHANGED rewriter

(***************************************************************************)
(* CellRef::unalive (design.rs:258-261).                                   *)
(***************************************************************************)
CellRef_unalive(index) ==
    /\ pc = "idle"
    /\ index \in LiveIndices(cells)
    /\ unalived_cells' = unalived_cells \cup {index}
    /\ hist' = NoHist
    /\ UNCHANGED <<cells, added_cells, replaced_cells, replaced_nets, pc, caller, did_change>>
    /\ UNCHANGED rewriter

(***************************************************************************)
(* Design::apply (design.rs:170-202).  The four loops of apply() run in    *)
(* the order of apply_order; pc names the loop that runs next.             *)
(***************************************************************************)
\* a variant of apply_order: net propagation before the tombstones and the replacements
apply_order_nets_first == <<"nets", "unalive", "replace", "extend">>

apply_order == <<"unalive", "replace", "extend", "nets">>

\* the position after phase p: the next loop of apply(), or the return
AfterPhase(p) ==
    LET at == CHOOSE k \in DOMAIN apply_order : apply_order[k] = p IN
    IF at < Len(apply_order) THEN apply_order[at + 1] ELSE "return"

Min(S) == CHOOSE x \in S : \A y \in S : x <= y

\* design.rs:171-172: did_change starts as "something was added"
apply_begin(who) ==
    /\ pc = "idle"
    /\ pc' = apply_order[1]
    /\ caller' = who
    /\ did_change' = (added_cells # <<>>)
    /\ hist' = [NoHist EXCEPT !.ran = TRUE, !.before = cells,
                                     !.unalived = unalived_cells,
                                     !.replaced = replaced_cells,
                                     !.nets = replaced_nets,
                                     !.designs = hist.designs]
    /\ UNCHANGED <<cells, queue>>
    /\ UNCHANGED rewriter

\* the return of apply(): back to the caller
Return(p) ==
    IF AfterPhase(p) = "return"
    THEN pc' = (IF caller = "compact" THEN "compact" ELSE "idle")
    ELSE pc' = AfterPhase(p)

\* design.rs:174-177: the slots of one cell become Void
TombstoneOne(cs, cell_index) ==
    LET n == Max(output_len(CellAt(cs, cell_index)), 1) IN
    [s \in 1..Len(cs) |-> IF (s - 1) \in cell_index..(cell_index + n - 1) THEN Void ELSE cs[s]]

RECURSIVE Tombstone(_, _)
Tombstone(cs, dead) ==
    IF dead = {} THEN cs
    ELSE LET i == Min(dead) IN Tombstone(TombstoneOne(cs, i), dead \ {i})

\* design.rs:173-179
apply_unalive ==
    /\ pc = "unalive"
    /\ cells' = Tombstone(cells, unalived_cells)
    /\ unalived_cells' = {}
    /\ did_change' = (did_change \/ unalived_cells # {})
    /\ hist' = [hist EXCEPT !.phases = Append(@, "unalive")]
    /\ Return("unalive")
    /\ UNCHANGED <<added_cells, replaced_cells, replaced_nets, caller>>
    /\ UNCHANGED rewriter

\* a variant of replace_assert: the widths are not compared
replace_assert_any_width(old_cell, new_cell) == IsLive(old_cell)

\* design.rs:181: the assertion on a replacement; a Void slot has no output_len
replace_assert(old_cell, new_cell) ==
    IsLive(old_cell) /\ output_len(old_cell) = output_len(new_cell)

\* design.rs:180-185: in index order, up to the first failing assertion
RECURSIVE ReplaceCells(_, _, _, _)
ReplaceCells(cs, repl, todo, applied) ==
    IF todo = {} THEN [cells |-> cs, applied |-> applied, ok |-> TRUE]
    ELSE LET i == Min(todo) IN
         IF replace_assert(CellAt(cs, i), repl[i])
         THEN ReplaceCells([cs EXCEPT ![i + 1] = repl[i]], repl, todo \ {i}, applied \cup {i})
         ELSE [cells |-> cs, applied |-> applied, ok |-> FALSE]

apply_replace ==
    /\ pc = "replace"
    /\ LET r == ReplaceCells(cells, replaced_cells, DOMAIN replaced_cells, {}) IN
        /\ cells' = r.cells
        /\ hist' = [hist EXCEPT !.applied = r.applied, !.phases = Append(@, "replace")]
        /\ IF r.ok THEN Return("replace") ELSE pc' = "panic"
    /\ replaced_cells' = EmptyMap
    /\ did_change' = (did_change \/ replaced_cells # EmptyMap)
    /\ UNCHANGED <<added_cells, unalived_cells, replaced_nets, caller>>
    /\ UNCHANGED rewriter

\* design.rs:186-187 (the IO ports of a design are not modelled)
apply_extend ==
    /\ pc = "extend"
    /\ cells' = cells \o added_cells
    /\ added_cells' = <<>>
    /\ hist' = [hist EXCEPT !.phases = Append(@, "extend")]
    /\ Return("extend")
    /\ UNCHANGED <<replaced_cells, unalived_cells, replaced_nets, caller, did_change>>
    /\ UNCHANGED rewriter

\* design.rs:191-196: the while loop on one operand.  It ends at the first net that
\* has no replacement; on a cycle of replacements it never ends: Diverged.
Diverged == 0 - 1

RECURSIVE FollowNet(_, _, _)
FollowNet(map, net, fuel) ==
    IF net \notin DOMAIN map THEN net
    ELSE IF fuel = 0 THEN Diverged
    ELSE FollowNet(map, map[net], fuel - 1)

\* a variant of visit_mut_net: one lookup instead of the while loop
visit_mut_net_once(map, net) == IF net \in DOMAIN map THEN map[net] ELSE net

\* a chain that does not cycle leaves the map within |DOMAIN map| steps
visit_mut_net(map, net) == FollowNet(map, net, Cardinality(DOMAIN map))

MapCell(map, cell) == [cell EXCEPT !.args = [k \in DOMAIN cell.args |-> visit_mut_net(map, cell.args[k])]]
CellSpins(map, cell) == \E k \in DOMAIN cell.args : visit_mut_net(map, cell.args[k]) = Diverged
SpinIndices(cs, map) == {i \in LiveIndices(cs) : CellSpins(map, CellAt(cs, i))}

\* design.rs:189-198: every cell that is neither Skip nor Void, in index order; the
\* loop does not get past the first cell on which the while loop never ends
PropagateNets(cs, map) ==
    LET spin == SpinIndices(cs, map)
        upto == IF spin = {} THEN Len(cs) ELSE Min(spin)
    IN  [s \in 1..Len(cs) |-> IF IsLive(cs[s]) /\ (s - 1) < upto THEN MapCell(map, cs[s]) ELSE cs[s]]

\* design.rs:188-200
apply_nets ==
    /\ pc = "nets"
    /\ hist' = [hist EXCEPT !.premap = cells, !.phases = Append(@, "nets")]
    /\ IF replaced_nets = EmptyMap
       THEN /\ Return("nets")
            /\ UNCHANGED <<cells, replaced_nets, did_change>>
       ELSE /\ cells' = PropagateNets(cells, replaced_nets)
            /\ did_change' = (did_change \/ cells' # cells)
            /\ IF SpinIndices(cells, replaced_nets) = {}
               THEN Return("nets") /\ replaced_nets' = EmptyMap
               ELSE pc' = "spin" /\ UNCHANGED replaced_nets
    /\ UNCHANGED <<added_cells, replaced_cells, unalived_cells, caller>>
    /\ UNCHANGED rewriter

\* design.rs:191: the while loop that never ends
apply_spin ==
    /\ pc = "spin"
    /\ UNCHANGED vars

(***************************************************************************)
(* Design::locate_cell (design.rs:114-125): the primary slot of the cell   *)
(* that drives a net.  It panics on a Void slot and on an index past the   *)
(* end of the arena.                                                       *)
(***************************************************************************)
LocatePanics(cs, net) ==
    /\ ~is_const(net)
    /\ \/ as_cell_index(net) \notin 0..(Len(cs) - 1)
       \/ CellAt(cs, as_cell_index(net)).kind = "Void"

locate_cell(cs, net) ==
    LET index == as_cell_index(net)
        cell == CellAt(cs, index)
    IN  IF cell.kind = "Skip" THEN cell.start ELSE index

\* a variant of get_deps: no cell reads another
get_deps_none(cs, cell) == {}

\* the cells whose outputs a cell reads (get_deps, design.rs:412-420)
get_deps(cs, cell) == {locate_cell(cs, net) : net \in {a \in ArgSet(cell) : ~is_const(a)}}
DepsPanic(cs, cell) == \E net \in ArgSet(cell) : LocatePanics(cs, net)

(***************************************************************************)
(* Design::compact (design.rs:478-540), after its call of apply().         *)
(***************************************************************************)
\* a variant of is_compact_root: Name cells are forgotten
is_compact_root_without_name(cell) ==
    \/ cell.kind \in {"Iob", "Other", "Input", "Output"}
    \/ cell.kind = "Target" /\ cell.purity = "HasEffects"

\* design.rs:486-500: the cells the reachability starts from
is_compact_root(cell) ==
    \/ cell.kind \in {"Iob", "Other", "Input", "Output", "Name"}
    \/ cell.kind = "Target" /\ cell.purity = "HasEffects"

CompactRoots(cs) == {i \in LiveIndices(cs) : is_compact_root(CellAt(cs, i))}

\* design.rs:503-514: pop the least index, keep it, queue what it reads
RECURSIVE KeepLoop(_, _, _)
KeepLoop(cs, todo, keep) ==
    IF todo = {} THEN [keep |-> keep, ok |-> TRUE]
    ELSE LET index == Min(todo)
             kept == keep \cup {index}
             cell == CellAt(cs, index)
         IN  IF DepsPanic(cs, cell) THEN [keep |-> kept, ok |-> FALSE]
             ELSE KeepLoop(cs, (todo \ {index}) \cup (get_deps(cs, cell) \ kept), kept)

\* design.rs:519: the index a kept cell moves to
NewIndex(cs, keep, old_index) ==
    LET before == {k \in keep : k < old_index} IN
    Cardinality(UNION {{<<k, j>> : j \in 1..Max(output_len(CellAt(cs, k)), 1)} : k \in before})

\* design.rs:516-529: old net -> new net, for every output bit of a kept cell
CompactNetMap(cs, keep) ==
    LET olds == UNION {OutputNets(cs, k) : k \in keep} IN
    [net \in olds |->
        LET k == locate_cell(cs, net) IN
        from_cell_index(NewIndex(cs, keep, k) + (as_cell_index(net) - k))]

\* a variant of compact_net: the operands keep their old nets
compact_net_unmapped(net_map, net) == net

\* design.rs:533: the constants keep their nets, every other net goes through net_map
compact_net(net_map, net) ==
    IF net \in {UNDEF, ZERO, ONE} THEN net ELSE net_map[net]

RECURSIVE CompactCells(_, _, _, _, _)
CompactCells(cs, keep, net_map, old_index, out) ==
    IF old_index >= Len(cs) THEN out
    ELSE IF old_index \in keep
    THEN LET cell == CellAt(cs, old_index)
             moved == [cell EXCEPT !.args = [k \in DOMAIN cell.args |-> compact_net(net_map, cell.args[k])]]
         IN  CompactCells(cs, keep, net_map, old_index + 1, out \o SlotsOf(moved, Len(out)))
    ELSE CompactCells(cs, keep, net_map, old_index + 1, out)

\* design.rs:534: indexing net_map with a net it does not hold panics
RemapPanics(cs, keep, net_map) ==
    \E k \in keep : \E net \in ArgSet(CellAt(cs, k)) : ~is_const(net) /\ net \notin DOMAIN net_map

\* design.rs:479: compact() starts with apply()
compact_begin == apply_begin("compact")
apply == apply_begin("apply")

\* design.rs:481-539: the rest of compact(), once apply() has returned
compact_body ==
    /\ pc = "compact"
    /\ LET r == KeepLoop(cells, CompactRoots(cells), {})
           net_map == CompactNetMap(cells, r.keep)
       IN  IF r.ok /\ ~RemapPanics(cells, r.keep, net_map)
           THEN /\ cells' = CompactCells(cells, r.keep, net_map, 0, <<>>)
                /\ hist' = [hist EXCEPT !.compacted = TRUE, !.uncompacted = cells,
                                        !.keep = r.keep, !.net_map = net_map]
                /\ pc' = "idle"
           ELSE /\ pc' = "panic"
                /\ UNCHANGED <<cells, hist>>
    /\ caller' = "none"
    /\ UNCHANGED <<queue, did_change>>
    /\ UNCHANGED rewriter

(***************************************************************************)
(* Design::iter_cells_topo (design.rs:411-476).                            *)
(***************************************************************************)
\* the indices of S, ascending
RECURSIVE Ascending(_)
Ascending(S) == IF S = {} THEN <<>> ELSE <<Min(S)>> \o Ascending(S \ {Min(S)})

\* design.rs:274-289: iter_cells() walks the arena in index order, past Void and Skip slots
iter_cells(cs) == Ascending(LiveIndices(cs))

\* design.rs:424-435: inputs, iobs and stateful cells are emitted first
is_emitted_first(cell) ==
    \/ cell.kind \in {"Input", "Iob", "Dff", "Other"}
    \/ cell.kind = "Target" /\ cell.purity # "Pure"

\* design.rs:445: outputs and names are left to the last loop
is_emitted_last(cell) == cell.kind \in {"Output", "Name"}

\* a variant of first_visited: the cells emitted first are not marked as visited
first_unvisited(first) == {}

\* design.rs:426, 431: the cells emitted first are marked as visited
first_visited(first) == {first[k] : k \in 1..Len(first)}

\* design.rs:453-465: the stack of (cell, deps not looked at yet)
RECURSIVE StackLoop(_, _, _, _)
StackLoop(cs, stack, visited, result) ==
    IF stack = <<>> THEN [visited |-> visited, result |-> result, ok |-> TRUE]
    ELSE LET top == stack[Len(stack)]
             pending == {d \in top.deps : d \notin visited}
         IN  IF pending # {}
             THEN LET dep_index == Min(pending)
                      cell == CellAt(cs, dep_index)
                      rest == {d \in top.deps : d > dep_index}
                  IN  IF DepsPanic(cs, cell)
                      THEN [visited |-> visited, result |-> result, ok |-> FALSE]
                      ELSE StackLoop(cs,
                                     [stack EXCEPT ![Len(stack)].deps = rest]
                                         \o <<[cell |-> dep_index, deps |-> get_deps(cs, cell)]>>,
                                     visited \cup {dep_index}, result)
             ELSE StackLoop(cs, SubSeq(stack, 1, Len(stack) - 1), visited, result \o <<top.cell>>)

\* design.rs:444-466: the loop over the cells, from the k-th of order on
RECURSIVE TopoScan(_, _, _, _, _)
TopoScan(cs, order, k, visited, result) ==
    IF k > Len(order) THEN [visited |-> visited, result |-> result, ok |-> TRUE]
    ELSE LET index == order[k]
             cell == CellAt(cs, index)
         IN  IF is_emitted_last(cell) \/ index \in visited
             THEN TopoScan(cs, order, k + 1, visited, result)
             ELSE IF DepsPanic(cs, cell)
             THEN [visited |-> visited, result |-> result, ok |-> FALSE]
             ELSE LET r == StackLoop(cs, <<[cell |-> index, deps |-> get_deps(cs, cell)]>>,
                                     visited \cup {index}, result)
                  IN  IF r.ok THEN TopoScan(cs, order, k + 1, r.visited, r.result) ELSE r

iter_cells_topo(cs) ==
    LET order == iter_cells(cs)
        first == SelectSeq(order, LAMBDA i : is_emitted_first(CellAt(cs, i)))
        r == TopoScan(cs, order, 1, first_visited(first), first)
        last == SelectSeq(order, LAMBDA i : i \notin r.visited)
    IN  [ok |-> r.ok, result |-> IF r.ok THEN r.result \o last ELSE <<>>]

\* a caller collects the cells iter_cells_topo() yields
iter_cells_topo_call ==
    /\ pc = "idle"
    /\ ~hist.sorted
    /\ LET r == iter_cells_topo(cells) IN
       IF r.ok
       THEN /\ hist' = [hist EXCEPT !.sorted = TRUE, !.topo = r.result]
            /\ pc' = pc
       ELSE /\ pc' = "panic"
            /\ UNCHANGED hist
    /\ UNCHANGED <<cells, queue, caller, did_change>>
    /\ UNCHANGED rewriter

(***************************************************************************)
(* The arena under its callers: cells are added, replacements and          *)
(* tombstones are queued, apply() and compact() drain the queue.           *)
(***************************************************************************)
\* the nets a caller can hold: the constant 0 and the output bits of the cells
HeldNets == {ZERO} \cup LiveNets(cells \o added_cells)
\* the nets a caller replaces a net by
ToNets == {ZERO} \cup LiveNets(cells)
\* the cells the callers add
AddChoices == {MkCell("Input", <<>>, 1), MkCell("Input", <<>>, 2)}
              \cup {MkCell("Not", <<a>>, 1) : a \in HeldNets}
\* the cells the callers replace a cell by: of width 1 and of width 0
ReplaceChoices == {MkCell("Not", <<a>>, 1) : a \in {ZERO} \cup DOMAIN replaced_nets}
                  \cup {MkCell("Output", <<ZERO>>, 0)}

Init == DesignNew

Next ==
    \/ \E cell \in AddChoices : add_cell(cell)
    \/ \E from_net \in LiveNets(cells), to_net \in ToNets :
          QueuedChanges < MaxChanges /\ replace_net(from_net, to_net)
    \/ \E index \in LiveIndices(cells), to_cell \in ReplaceChoices :
          QueuedChanges < MaxChanges /\ CellRef_replace(index, to_cell)
    \/ \E index \in LiveIndices(cells) :
          QueuedChanges < MaxChanges /\ CellRef_unalive(index)
    \/ apply
    \/ apply_unalive
    \/ apply_replace
    \/ apply_extend
    \/ apply_nets
    \/ apply_spin

Spec == Init /\ [][Next]_vars

(***************************************************************************)
(* Properties of apply().                                                  *)
(***************************************************************************)
\* apply() has returned and nothing was queued since
ApplyReturned == pc = "idle" /\ hist.ran /\ ~hist.compacted

IsPrefix(p, q) == Len(p) <= Len(q) /\ \A k \in DOMAIN p : p[k] = q[k]

\* C1: for any queued changes, apply() does all tombstone conversions first, then
\* all cell replacements, then (after the added cells joined the arena) the net-map
\* propagation: the loops run in this order, no tombstone is pending when the
\* replacements run, and nothing but the net map is pending when propagation runs.
C1_ApplyOrder ==
    /\ IsPrefix(hist.phases, <<"unalive", "replace", "extend", "nets">>)
    /\ pc = "replace" => unalived_cells = {}
    /\ pc = "nets" => unalived_cells = {} /\ replaced_cells = EmptyMap /\ added_cells = <<>>
    /\ ApplyReturned => Len(hist.phases) = 4

\* C1 witness: an apply() that had a tombstone and a net replacement to do, with
\* cells added, has returned
C1_Witness ==
    /\ ApplyReturned
    /\ hist.unalived # {}
    /\ hist.nets # EmptyMap
    /\ Len(cells) > Len(hist.before)

\* the nets reached from the nets of S by following the replacement map
RECURSIVE ReachSet(_, _)
ReachSet(map, S) ==
    LET T == S \cup {map[x] : x \in S \cap DOMAIN map} IN
    IF T = S THEN S ELSE ReachSet(map, T)

\* C2: after apply() returns, no operand of a live cell is a key of the drained net
\* map, and every operand is the end of the replacement chain of the net it was.
C2_ChainsFollowed ==
    ApplyReturned =>
        \A s \in DOMAIN cells : IsLive(cells[s]) =>
            \A k \in DOMAIN cells[s].args :
                /\ cells[s].args[k] \notin DOMAIN hist.nets
                /\ cells[s].args[k] \in ReachSet(hist.nets, {hist.premap[s].args[k]})

\* C2 witness: a live cell used a net a with a -> b and b -> c queued, and uses c now
C2_Witness ==
    /\ ApplyReturned
    /\ \E s \in DOMAIN cells : IsLive(cells[s]) /\ \E k \in DOMAIN cells[s].args :
          LET a == hist.premap[s].args[k] IN
          /\ a \in DOMAIN hist.nets
          /\ hist.nets[a] \in DOMAIN hist.nets
          /\ cells[s].args[k] = hist.nets[hist.nets[a]]

\* C6: every slot whose queued replacement apply() has applied holds the queued cell,
\* of the width of the cell it replaced (a replacement of another width is never
\* applied), and an apply() that returns has applied every queued replacement.
C6_ReplaceKeepsWidth ==
    ~hist.compacted =>
        /\ \A i \in hist.applied :
              /\ output_len(CellAt(cells, i)) = output_len(CellAt(hist.before, i))
              /\ CellAt(cells, i).kind = hist.replaced[i].kind
        /\ ApplyReturned => hist.applied = DOMAIN hist.replaced

\* C6 witness: a queued replacement of the same width was applied, and (in another
\* run) one of another width stopped apply()
C6_Witness ==
    /\ ApplyReturned
    /\ hist.applied # {}
    /\ \E i \in hist.applied : CellAt(cells, i).kind # CellAt(hist.before, i).kind

C6_WitnessRejected ==
    /\ pc = "panic"
    /\ \E i \in DOMAIN hist.replaced : i \notin hist.applied
          /\ IsLive(CellAt(cells, i))
          /\ output_len(CellAt(cells, i)) # output_len(hist.replaced[i])

(***************************************************************************)
(* compact() on the designs of CompactSlots slots.  A slot holds a         *)
(* tombstone, an input of width 1 or 2, or a cell of any of the kinds      *)
(* compact() tells apart; an operand is a constant or an output bit of a   *)
(* neighbouring slot (so cells depend on earlier and on later cells, on    *)
(* each other, on Skip slots and on tombstones).                           *)
(***************************************************************************)
UnaryKinds == {"Output", "Name", "Iob", "Other", "Dff", "Not"}
Purities == {"Pure", "HasState", "HasEffects"}
WidthOf(kind) == IF kind \in {"Output", "Name"} THEN 0 ELSE 1

\* what a slot is filled with: a shape, and where its operand points
Shapes ==
    {[kind |-> "Void", purity |-> "Pure", len |-> 1], [kind |-> "And", purity |-> "Pure", len |-> 1]}
    \cup {[kind |-> "Input", purity |-> "Pure", len |-> w] : w \in {1, 2}}
    \cup {[kind |-> kind, purity |-> "Pure", len |-> WidthOf(kind)] : kind \in UnaryKinds}
    \cup {[kind |-> "Target", purity |-> purity, len |-> 1] : purity \in Purities}
Directions == {"const", "prev", "next"}
Blueprints == {[shape |-> shape, to |-> to] : shape \in Shapes, to \in Directions}

ConstOf(index) == <<ZERO, ONE, UNDEF>>[(index % 3) + 1]
OperandAt(to, index, n) ==
    IF to = "prev" /\ index > 0 THEN from_cell_index(index - 1)
    ELSE IF to = "next" /\ index + 1 < n THEN from_cell_index(index + 1)
    ELSE ConstOf(index)

\* the cell a blueprint puts at slot index of an arena of n slots
CellOf(blueprint, index, n) ==
    LET shape == blueprint.shape
        operand == OperandAt(blueprint.to, index, n)
    IN  CASE shape.kind = "Void" -> Void
          [] shape.kind = "Input" -> MkCell("Input", <<>>, IF index + shape.len <= n THEN shape.len ELSE 1)
          [] shape.kind = "And" -> MkCell("And", <<OperandAt("prev", index, n), OperandAt("next", index, n)>>, 1)
          [] shape.kind = "Target" -> MkTarget(shape.purity, <<operand>>, 1)
          [] OTHER -> MkCell(shape.kind, <<operand>>, shape.len)

\* the arena of n slots a row of blueprints describes, from slot index on
RECURSIVE DesignFrom(_, _, _)
DesignFrom(row, index, n) ==
    IF index >= n THEN <<>>
    ELSE LET cell == CellOf(row[index], index, n)
         IN  SlotsOf(cell, index) \o DesignFrom(row, index + Max(output_len(cell), 1), n)

CompactInit ==
    /\ \E row \in [0..(CompactSlots - 1) -> Blueprints] : cells = DesignFrom(row, 0, CompactSlots)
    /\ added_cells = <<>>
    /\ replaced_cells = EmptyMap
    /\ unalived_cells = {}
    /\ replaced_nets = EmptyMap
    /\ pc = "idle"
    /\ caller = "none"
    /\ did_change = FALSE
    /\ hist = NoHist
    /\ rewriter = NoRewriter

CompactNext ==
    \/ ~hist.ran /\ compact_begin
    \/ apply_unalive
    \/ apply_replace
    \/ apply_extend
    \/ apply_nets
    \/ compact_body

SpecCompact == CompactInit /\ [][CompactNext]_vars

CompactReturned == pc = "idle" /\ hist.compacted

\* the live cells of an arena, in index order
LiveSeq(cs) == SelectSeq(cs, IsLive)

\* the cells of S and every cell they transitively read
RECURSIVE DependencyClosure(_, _)
DependencyClosure(cs, S) ==
    LET more == S \cup UNION {get_deps(cs, CellAt(cs, i)) : i \in S}
    IN  IF more = S THEN S ELSE DependencyClosure(cs, more)

EffectfulKinds == {"Output", "Name", "Iob", "Other", "Input"}
IsEffectful(cell) == cell.kind \in EffectfulKinds \/ (cell.kind = "Target" /\ cell.purity = "HasEffects")

\* the compacted arena holds exactly the cells of needed, in order, with their operands renumbered
CompactedTo(needed) ==
    LET old == hist.uncompacted
        order == Ascending(needed)
        live == LiveSeq(cells)
    IN  /\ hist.keep = needed
        /\ Len(live) = Len(order)
        /\ \A k \in 1..Len(order) :
              LET was == CellAt(old, order[k]) IN
              /\ live[k].kind = was.kind
              /\ live[k].len = was.len
              /\ live[k].purity = was.purity
              /\ Len(live[k].args) = Len(was.args)
              /\ \A j \in 1..Len(was.args) :
                    live[k].args[j] = IF is_const(was.args[j]) THEN was.args[j] ELSE hist.net_map[was.args[j]]

C4_NoDanglingOperands ==
    CompactReturned =>
        \A i \in LiveIndices(cells) : \A net \in ArgSet(CellAt(cells, i)) :
            \/ is_const(net)
            \/ /\ as_cell_index(net) \in 0..(Len(cells) - 1)
               /\ CellAt(cells, as_cell_index(net)).kind # "Void"
               /\ LET start == locate_cell(cells, net) IN
                  /\ IsLive(CellAt(cells, start))
                  /\ as_cell_index(net) - start < output_len(CellAt(cells, start))

\* compact() returned on an arena that held a tombstone, and a kept cell reads a cell that moved
C4_Witness ==
    /\ CompactReturned
    /\ \E k \in 1..Len(hist.uncompacted) : hist.uncompacted[k].kind = "Void"
    /\ \E net \in DOMAIN hist.net_map :
          /\ hist.net_map[net] # net
          /\ \E i \in LiveIndices(cells) : hist.net_map[net] \in ArgSet(CellAt(cells, i))

(***************************************************************************)
(* iter_cells_topo() on the designs of TopoSlots slots.  Operands point to *)
(* the previous, the next and the next but one slot, around the end of the *)
(* arena, so that the designs hold forward references, shared operands and *)
(* cycles of every length, through combinational cells and through state.  *)
(***************************************************************************)
TopoBlueprints ==
    {[kind |-> "Void", purity |-> "Pure", len |-> 1, to |-> <<>>],
     [kind |-> "Input", purity |-> "Pure", len |-> 1, to |-> <<>>],
     [kind |-> "Input", purity |-> "Pure", len |-> 2, to |-> <<>>],
     [kind |-> "And", purity |-> "Pure", len |-> 1, to |-> <<"prev", "next">>],
     [kind |-> "And", purity |-> "Pure", len |-> 1, to |-> <<"next", "far">>],
     [kind |-> "Other", purity |-> "Pure", len |-> 1, to |-> <<"prev">>],
     [kind |-> "Name", purity |-> "Pure", len |-> 0, to |-> <<"next">>]}
    \cup {[kind |-> "Not", purity |-> "Pure", len |-> 1, to |-> <<to>>] : to \in {"prev", "next", "far"}}
    \cup {[kind |-> "Dff", purity |-> "Pure", len |-> 1, to |-> <<to>>] : to \in {"prev", "next"}}
    \cup {[kind |-> "Output", purity |-> "Pure", len |-> 0, to |-> <<to>>] : to \in {"prev", "next"}}
    \cup {[kind |-> "Target", purity |-> purity, len |-> 1, to |-> <<"next">>] : purity \in {"Pure", "HasState"}}

TopoOperandAt(to, index, n) ==
    from_cell_index((index + (CASE to = "prev" -> n - 1 [] to = "next" -> 1 [] OTHER -> 2)) % n)

TopoCellOf(blueprint, index, n) ==
    LET args == [k \in DOMAIN blueprint.to |-> TopoOperandAt(blueprint.to[k], index, n)]
    IN  CASE blueprint.kind = "Void" -> Void
          [] blueprint.kind = "Input" ->
                MkCell("Input", <<>>, IF index + blueprint.len <= n THEN blueprint.len ELSE 1)
          [] blueprint.kind = "Target" -> MkTarget(blueprint.purity, args, blueprint.len)
          [] OTHER -> MkCell(blueprint.kind, args, blueprint.len)

RECURSIVE TopoDesignFrom(_, _, _)
TopoDesignFrom(row, index, n) ==
    IF index >= n THEN <<>>
    ELSE LET cell == TopoCellOf(row[index], index, n)
         IN  SlotsOf(cell, index) \o TopoDesignFrom(row, index + Max(output_len(cell), 1), n)

\* an operand is a constant, an output bit of a live cell, or the net of a tombstoned cell
OperandsWereOutputs(cs) ==
    \A i \in LiveIndices(cs) : \A net \in ArgSet(CellAt(cs, i)) :
        is_const(net) \/ net \in LiveNets(cs) \/ CellAt(cs, as_cell_index(net)).kind = "Void"

TopoInit ==
    /\ \E row \in [0..(TopoSlots - 1) -> TopoBlueprints] : cells = TopoDesignFrom(row, 0, TopoSlots)
    /\ OperandsWereOutputs(cells)
    /\ added_cells = <<>>
    /\ replaced_cells = EmptyMap
    /\ unalived_cells = {}
    /\ replaced_nets = EmptyMap
    /\ pc = "idle"
    /\ caller = "none"
    /\ did_change = FALSE
    /\ hist = NoHist
    /\ rewriter = NoRewriter

TopoNext == iter_cells_topo_call

SpecTopo == TopoInit /\ [][TopoNext]_vars

TopoReturned == pc = "idle" /\ hist.sorted

\* where index stands in the yielded order
Pos(index) == CHOOSE k \in 1..Len(hist.topo) : hist.topo[k] = index

\* C7: iter_cells_topo yields every live cell exactly once, cycles or not
C7_EveryCellOnce ==
    TopoReturned =>
        /\ {hist.topo[k] : k \in 1..Len(hist.topo)} = LiveIndices(cells)
        /\ Len(hist.topo) = Cardinality(LiveIndices(cells))

\* the live cells an output of which the cell at index uses
Uses(cs, index) == {u \in LiveIndices(cs) : OutputNets(cs, u) \cap ArgSet(CellAt(cs, index)) # {}}

\* the combinational edges into the cell at index: a cell emitted first has none
CombinationalDeps(cs, index) ==
    IF is_emitted_first(CellAt(cs, index)) THEN {} ELSE Uses(cs, index)

RECURSIVE CombinationalClosure(_, _)
CombinationalClosure(cs, S) ==
    LET more == S \cup UNION {CombinationalDeps(cs, i) : i \in S}
    IN  IF more = S THEN S ELSE CombinationalClosure(cs, more)

\* u reads v through combinational cells: with the edge from u to v this closes a cycle
ReadsThrough(cs, u, v) == v \in CombinationalClosure(cs, CombinationalDeps(cs, u))

\* the design has a cycle through combinational cells only
HasCombinationalCycle(cs) == \E i \in LiveIndices(cs) : ReadsThrough(cs, i, i)

\* iter_cells_topo returned on a design with a combinational cycle, a cell emitted first
\* and an output
C7_Witness ==
    /\ TopoReturned
    /\ HasCombinationalCycle(cells)
    /\ \E i \in LiveIndices(cells) : CellAt(cells, i).kind = "Dff"
    /\ \E i \in LiveIndices(cells) : CellAt(cells, i).kind = "Output"

\* C8: for every combinational edge from u to v (v reads an output of u) u is yielded
\* before v, unless the edge closes a cycle (u reads v through combinational cells)
C8_OperandsFirst ==
    TopoReturned =>
        \A v \in LiveIndices(cells) : \A u \in CombinationalDeps(cells, v) :
            \/ Pos(u) < Pos(v)
            \/ ReadsThrough(cells, u, v)

\* iter_cells_topo returned on a design where a combinational cell reads a later
\* combinational cell that is on no cycle with it, and where another edge closes a cycle
C8_Witness ==
    /\ TopoReturned
    /\ \E v \in LiveIndices(cells) : \E u \in CombinationalDeps(cells, v) :
          /\ u > v
          /\ ~is_emitted_first(CellAt(cells, u))
          /\ ~ReadsThrough(cells, u, v)
          /\ Pos(u) < Pos(v)
    /\ \E v \in LiveIndices(cells) : \E u \in CombinationalDeps(cells, v) : Pos(u) >= Pos(v)

(***************************************************************************)
(* The rewrite driver (rewrite.rs): Design::rewrite, Rewriter::run,        *)
(* Rewriter::process_cell and Rewriter::add_cell_meta_output.  The rule    *)
(* sets are the environment: a call of RewriteRuleset::rewrite returns any *)
(* of the results a rule set can build from the cell it is shown.          *)
(***************************************************************************)
\* the rule sets of a pass of which nothing is known but the trait: two rule sets that
\* may return any result for any cell
rules == <<"Unknown", "Unknown">>

\* Cell::has_effects: every cell but Input, Output, Name, Iob, Instance, Dff and effectful
\* Target is free of side effects
has_effects(cell) ==
    \/ cell.kind \in {"Input", "Output", "Name", "Iob", "Other", "Dff"}
    \/ cell.kind = "Target" /\ cell.purity = "HasEffects"

\* Design::is_changed: the change queue holds something
is_changed ==
    \/ added_cells # <<>>
    \/ replaced_cells # EmptyMap
    \/ unalived_cells # {}
    \/ replaced_nets # EmptyMap

\* a variant of map_net_new: the replacements queued in this pass are not looked at
map_net_new_unmapped(net) == net

\* Design::map_net_new: the net through the replacements queued in this pass
map_net_new(net) == IF net \in DOMAIN replaced_nets THEN replaced_nets[net] ELSE net

\* rewrite.rs:161, 214: cell.visit_mut(|net| *net = self.design.map_net_new(*net))
MapOperands(cell) == [cell EXCEPT !.args = [k \in DOMAIN cell.args |-> map_net_new(cell.args[k])]]

\* CellRef::output: the output nets of the cell in slot index
CellOutput(cs, index) == [k \in 1..output_len(CellAt(cs, index)) |-> from_cell_index(index + k - 1)]

\* Cell::slice(bit..bit + 1) of a bitwise cell: the bit of each of its operands
slice(cell, bit) ==
    [cell EXCEPT !.args = [k \in 1..(Len(cell.args) \div output_len(cell)) |->
                              cell.args[(k - 1) * output_len(cell) + bit + 1]],
                 !.len = 1]

\* TopoSortItem::Cell(cell) and TopoSortItem::CellBit(cell, bit)
ItemCell(index) == [cell |-> index, bit |-> 0 - 1]
ItemCellBit(index, bit) == [cell |-> index, bit |-> bit]

\* a bitwise cell of more than one bit is yielded bit by bit
is_split(cell) == cell.kind \in {"Not", "And", "Or", "Xor"} /\ output_len(cell) > 1

RECURSIVE ItemsOf(_, _, _)
ItemsOf(cs, order, k) ==
    IF k > Len(order) THEN <<>>
    ELSE LET index == order[k]
             cell == CellAt(cs, index)
         IN  (IF is_split(cell)
              THEN [b \in 1..output_len(cell) |-> ItemCellBit(index, b - 1)]
              ELSE <<ItemCell(index)>>) \o ItemsOf(cs, order, k + 1)

\* Design::topo_sort: the order of iter_cells_topo, as items
topo_sort(cs) ==
    LET sorted == iter_cells_topo(cs)
    IN  [ok |-> sorted.ok, worklist |-> ItemsOf(cs, sorted.result, 1)]

\* rewrite.rs:230-238 and 155: Design::rewrite(rule_sets) up to the worklist of run()
Design_rewrite(rule_sets) ==
    /\ pc = "idle"
    /\ LET sorted == topo_sort(cells) IN
       IF is_changed \/ ~sorted.ok
       THEN /\ pc' = "panic"
            /\ UNCHANGED <<rewriter, hist>>
       ELSE /\ pc' = "run"
            /\ rewriter' = [NoRewriter EXCEPT !.worklist = sorted.worklist, !.rules = rule_sets]
            /\ hist' = [NoHist EXCEPT !.original = cells, !.designs = Append(hist.designs, cells)]
    /\ UNCHANGED <<cells, queue, caller, did_change>>

\* the first pass on a design, with the two unknown rule sets
rewrite_begin ==
    /\ rewriter = NoRewriter
    /\ Design_rewrite(rules)

\* rewrite.rs:156-162, 212-216: the next item, its operands mapped, enters process_cell
run_item ==
    /\ pc = "run"
    /\ rewriter.item < Len(rewriter.worklist)
    /\ LET item == rewriter.worklist[rewriter.item + 1]
           whole == CellAt(cells, item.cell)
           taken == IF item.bit < 0 THEN whole ELSE slice(whole, item.bit)
           output == IF item.bit < 0 THEN CellOutput(cells, item.cell)
                     ELSE <<from_cell_index(item.cell + item.bit)>>
       IN  /\ rewriter' = [rewriter EXCEPT !.cell = MapOperands(taken), !.output = output,
                                           !.replacement_cell = NoCell, !.replacement_meta = FALSE,
                                           !.rule = 1, !.restarts = 0, !.result = ResultNone]
           /\ hist' = [hist EXCEPT !.visits = Append(@, item), !.calls = <<>>]
    /\ pc' = "rules"
    /\ UNCHANGED <<cells, queue, caller, did_change>>

\* rewrite.rs:91: replacement_cell.as_ref().unwrap_or(cell)
cur_cell == IF rewriter.replacement_cell = NoCell THEN rewriter.cell ELSE rewriter.replacement_cell

\* the cells the rule sets rewrite; for every other cell they return None
RuleMatches(cell) == cell.kind \in {"Buf", "Not"}

\* the cells a rule set may return for a cell: a Not for a Buf and a Buf for a Not, over its operand
CellChoices(cell) == {MkCell(IF cell.kind = "Buf" THEN "Not" ELSE "Buf", cell.args, cell.len)}

\* the values a rule set may return for a cell: a constant or one of its operands
ValueChoices(cell, output) ==
    IF Len(output) = 1 THEN {<<net>> : net \in ArgSet(cell) \cup {ZERO}} ELSE {}

\* a value of another length than the output, which no rule set is kept from returning
LongValue == <<ZERO, ZERO>>

UnknownResults(cell, output) ==
    {ResultNone}
    \cup (IF RuleMatches(cell)
          THEN {ResultValue(value) : value \in ValueChoices(cell, output)}
               \cup (IF cell.kind = "Buf" THEN {ResultValue(LongValue)} ELSE {})
               \cup (IF rewriter.restarts < MaxRestarts
                     THEN {ResultCell(c) : c \in CellChoices(cell)}
                          \cup {ResultCellMeta(c) : c \in CellChoices(cell)}
                     ELSE {})
          ELSE {})

\* RewriteNetSource (rewrite.rs:43-47)
SourceOpaque == [kind |-> "Opaque", trit |-> ZERO, cell |-> NoCell, bit |-> 0]
SourceConst(trit) == [kind |-> "Const", trit |-> trit, cell |-> NoCell, bit |-> 0]
SourceCell(cell, bit) == [kind |-> "Cell", trit |-> ZERO, cell |-> cell, bit |-> bit]

\* Design::find_new_cell: the cell that drives a net and the bit of its output, as the
\* cell stands with the replacements and additions queued in this pass; Err(trit) for a
\* constant
find_new_cell(net) ==
    IF is_const(net) THEN SourceConst(net)
    ELSE LET all == cells \o added_cells
             index == locate_cell(all, net)
             cell == IF index \in DOMAIN replaced_cells THEN replaced_cells[index]
                     ELSE CellAt(all, index)
         IN  SourceCell(cell, as_cell_index(net) - index)

\* a variant of find_cell: the design is asked whether the net was processed or not
find_cell_unguarded(net) == find_new_cell(net)

\* rewrite.rs:76-84: Rewriter::find_cell
find_cell(net) ==
    IF net \notin rewriter.processed /\ ~is_const(net) THEN SourceOpaque
    ELSE find_new_cell(net)

(***************************************************************************)
(* ControlNet (value.rs:590-700): a net and its polarity.                  *)
(***************************************************************************)
ControlNet_Pos(net) == [net |-> net, neg |-> FALSE]
ControlNet_Neg(net) == [net |-> net, neg |-> TRUE]
from_net_invert(net, invert) == [net |-> net, neg |-> invert]

\* ControlNet::canonicalize: a negated constant is the positive constant of the same value
canonicalize(cnet) ==
    IF cnet.neg /\ cnet.net = UNDEF THEN ControlNet_Pos(UNDEF)
    ELSE IF cnet.neg /\ cnet.net = ZERO THEN ControlNet_Pos(ONE)
    ELSE IF cnet.neg /\ cnet.net = ONE THEN ControlNet_Pos(ZERO)
    ELSE cnet

\* a variant of ControlNet_not: the polarity is kept
ControlNet_not_kept(cnet) == cnet

\* impl Not for ControlNet: the other polarity, canonicalized
ControlNet_not(cnet) == canonicalize([cnet EXCEPT !.neg = ~@])

\* ControlNet::is_always(active): is_active() == Some(active)
is_always(cnet, active) ==
    IF active THEN cnet \in {ControlNet_Pos(ONE), ControlNet_Neg(ZERO)}
    ELSE cnet \in {ControlNet_Pos(ZERO), ControlNet_Neg(ONE)}

\* the derived Ord of ControlNet: every Pos before every Neg, then by net
cnet_gt(cnet1, cnet2) ==
    IF cnet1.neg # cnet2.neg THEN cnet1.neg ELSE cnet1.net > cnet2.net

\* Cell::Aig(cnet1, cnet2) and the k-th operand of an Aig cell
MkAig(cnet1, cnet2) ==
    [kind |-> "Aig", args |-> <<cnet1.net, cnet2.net>>, len |-> 1, start |-> 0,
     purity |-> "None", neg |-> <<cnet1.neg, cnet2.neg>>]
AigOperand(cell, k) == [net |-> cell.args[k], neg |-> cell.neg[k]]

\* Ord for Value (value.rs:180-197): the nets of two values compared from the first on
RECURSIVE value_gt(_, _)
value_gt(val1, val2) ==
    IF val1 = <<>> THEN FALSE
    ELSE IF val2 = <<>> THEN TRUE
    ELSE IF Head(val1) # Head(val2) THEN Head(val1) > Head(val2)
    ELSE value_gt(Tail(val1), Tail(val2))

\* the two operands of a cell of two operands of the same width
Operand1(cell) == SubSeq(cell.args, 1, Len(cell.args) \div 2)
Operand2(cell) == SubSeq(cell.args, Len(cell.args) \div 2 + 1, Len(cell.args))

\* a variant of Normalize_rewrite: the operands of a commutative cell are left as they are
Normalize_rewrite_unordered(cell) ==
    IF cell.kind = "Buf" THEN ResultValue(cell.args) ELSE ResultNone

\* normalize.rs:14-26: a buffer gives way to its operand, a commutative cell has its
\* operands put in ascending order
Normalize_rewrite(cell) ==
    IF cell.kind = "Buf" THEN ResultValue(cell.args)
    ELSE IF cell.kind = "Aig"
    THEN IF cnet_gt(AigOperand(cell, 1), AigOperand(cell, 2))
         THEN ResultCell(MkAig(AigOperand(cell, 2), AigOperand(cell, 1)))
         ELSE ResultNone
    ELSE IF /\ cell.kind \in {"And", "Or", "Xor", "Eq", "Mul"}
            /\ value_gt(Operand1(cell), Operand2(cell))
    THEN ResultCell([cell EXCEPT !.args = Operand2(cell) \o Operand1(cell)])
    ELSE ResultNone

\* rule.rewrite(cur_cell, cur_meta, output, self) of the rule set of that name
RewriteResults(rule, cell, output) ==
    CASE rule = "Normalize" -> {Normalize_rewrite(cell)}
      [] OTHER -> UnknownResults(cell, output)

\* a variant of rule_after_cell: the sweep goes on with the next rule
rule_after_cell_next(rule) == rule + 1

\* rewrite.rs:98, 103: continue 'outer, the sweep starts again with the first rule
rule_after_cell(rule) == 1

\* rewrite.rs:89-111: one call of rule.rewrite in the loop of process_cell; the rule set looks
\* at the source of every operand of the cell through find_cell (aig.rs:81, 92-93)
rule_rewrite ==
    /\ pc = "rules"
    /\ \E result \in RewriteResults(rewriter.rules[rewriter.rule], cur_cell, rewriter.output) :
          LET rule == rewriter.rule
              next == IF result.kind = "None" THEN rule + 1 ELSE rule_after_cell(rule)
              replaced == IF result.kind \in {"Cell", "CellMeta"}
                          THEN [rewriter EXCEPT !.replacement_cell = result.cell,
                                                !.replacement_meta = (@ \/ result.kind = "CellMeta"),
                                                !.restarts = @ + 1]
                          ELSE rewriter
              found == [net \in ArgSet(cur_cell) |-> find_cell(net)]
          IN  /\ hist' = [hist EXCEPT !.calls = Append(@, [rule |-> rule, cell |-> cur_cell,
                                                          kind |-> result.kind, to |-> result.cell,
                                                          found |-> found])]
              /\ IF result.kind = "Value"
                 THEN /\ rewriter' = [rewriter EXCEPT !.result = result]
                      /\ pc' = "finish"
                 ELSE IF next > Len(rewriter.rules)
                 THEN /\ rewriter' = [replaced EXCEPT !.result = ResultNone]
                      /\ pc' = "finish"
                 ELSE /\ rewriter' = [replaced EXCEPT !.rule = next]
                      /\ pc' = pc
    /\ UNCHANGED <<cells, queue, caller, did_change>>

\* rewrite.rs:112-123: what process_cell returns once the loop is left
process_cell_result ==
    IF rewriter.result.kind = "Value" THEN rewriter.result
    ELSE IF cur_cell \in DOMAIN rewriter.cache THEN ResultValue(rewriter.cache[cur_cell])
    ELSE IF rewriter.replacement_cell = NoCell THEN ResultNone
    ELSE IF rewriter.replacement_meta THEN ResultCellMeta(rewriter.replacement_cell)
    ELSE ResultCell(rewriter.replacement_cell)

\* Design::replace_net (design.rs:139-145) on a queue of replacements
ReplaceNet(nets, from_net, to_net) ==
    IF from_net = to_net THEN [nets |-> nets, ok |-> TRUE]
    ELSE IF from_net \in DOMAIN nets THEN [nets |-> nets, ok |-> FALSE]
    ELSE [nets |-> MapPut(nets, from_net, to_net), ok |-> TRUE]

\* rewrite.rs:201-207: replace_net for every pair of output.iter().zip(value), from the k-th on
RECURSIVE ReplaceNets(_, _, _, _)
ReplaceNets(nets, output, value, k) ==
    IF k > Len(output) THEN [nets |-> nets, ok |-> TRUE]
    ELSE LET r == ReplaceNet(nets, output[k], value[k])
         IN  IF r.ok THEN ReplaceNets(r.nets, output, value, k + 1) ELSE r

\* a variant of CacheInsert: the cache takes nothing
CacheInsert_nothing(cache, cell, value) == cache

\* rewrite.rs:167-169: the cache takes the cells without side effects
CacheInsert(cache, cell, value) == IF has_effects(cell) THEN cache ELSE MapPut(cache, cell, value)

SeqSet(seq) == {seq[k] : k \in 1..Len(seq)}

\* a variant of next_item: a cell that was replaced is looked at again
next_item_unless_replaced(item, result) == IF result.kind = "Cell" THEN item ELSE item + 1

\* rewrite.rs:156: the for loop goes on with the next item
next_item(item, result) == item + 1

\* a variant of net_replaced: only the first rule set hears of a replaced net
net_replaced_first(from_net, to_net) == {[rule |-> 1, from |-> from_net, to |-> to_net]}

\* rewrite.rs:203-205, 219-221: rule.net_replaced(design, net, new_net) for every rule set
net_replaced(from_net, to_net) ==
    {[rule |-> r, from |-> from_net, to |-> to_net] : r \in 1..Len(rewriter.rules)}

\* the rule loop of the cell in slot index ended with Value(value); carried tells whether
\* run() went through its Value arm
Ended(index, output, value, carried) ==
    [cell |-> index, output |-> output, value |-> value, carried |-> carried]

\* rewrite.rs:163-210: run() on what process_cell returned for a TopoSortItem::Cell
run_cell(item, result) ==
    LET index == item.cell
        output == rewriter.output
        left == [rewriter EXCEPT !.item = next_item(@, result), !.cell = NoCell, !.output = <<>>,
                                 !.replacement_cell = NoCell, !.replacement_meta = FALSE,
                                 !.rule = 0, !.restarts = 0, !.result = ResultNone]
    IN  CASE result.kind = "None" ->
               /\ rewriter' = [left EXCEPT !.cache = CacheInsert(@, rewriter.cell, output),
                                           !.processed = @ \cup SeqSet(output)]
               /\ pc' = "run"
               /\ hist' = [hist EXCEPT !.calls = <<>>]
               /\ UNCHANGED queue
          [] result.kind \in {"Cell", "CellMeta"} ->
               /\ IF CellAt(cells, index) = result.cell
                  THEN pc' = "run" /\ UNCHANGED replaced_cells
                  ELSE IF index \in DOMAIN replaced_cells
                  THEN pc' = "panic" /\ UNCHANGED replaced_cells
                  ELSE pc' = "run" /\ replaced_cells' = MapPut(replaced_cells, index, result.cell)
               /\ rewriter' = [left EXCEPT !.cache = CacheInsert(@, result.cell, output),
                                           !.processed = @ \cup SeqSet(output)]
               /\ hist' = [hist EXCEPT !.calls = <<>>]
               /\ UNCHANGED <<added_cells, unalived_cells, replaced_nets>>
          [] result.kind = "Value" ->
               LET stopped == [hist EXCEPT !.calls = <<>>,
                                 !.ended = @ \cup {Ended(index, output, result.value, FALSE)}]
               IN
               IF Len(result.value) # Len(output)
               THEN pc' = "panic" /\ hist' = stopped /\ UNCHANGED <<rewriter, queue>>
               ELSE LET r == ReplaceNets(replaced_nets, output, result.value, 1) IN
                    IF ~r.ok
                    THEN pc' = "panic" /\ hist' = stopped /\ UNCHANGED <<rewriter, queue>>
                    ELSE /\ replaced_nets' = r.nets
                         /\ unalived_cells' = unalived_cells \cup {index}
                         /\ rewriter' = [left EXCEPT !.processed = @ \cup SeqSet(output)]
                         /\ hist' = [hist EXCEPT !.calls = <<>>,
                                       !.notified = @ \cup UNION {net_replaced(output[k], result.value[k]) :
                                                                   k \in 1..Len(output)},
                                       !.ended = @ \cup {Ended(index, output, result.value, TRUE)}]
                         /\ pc' = "run"
                         /\ UNCHANGED <<added_cells, replaced_cells>>

\* rewrite.rs:134-152, 216-222: add_cell_meta_output and run() for a TopoSortItem::CellBit
run_cell_bit(item, result) ==
    LET net == rewriter.output[1]
        added == result.kind # "Value"
        cell == IF result.kind = "None" THEN rewriter.cell ELSE result.cell
        index == Len(cells) + Len(added_cells)
        new_value == IF added THEN <<from_cell_index(index)>> ELSE result.value
        r == ReplaceNet(replaced_nets, net, new_value[1])
        left == [rewriter EXCEPT !.item = next_item(@, result), !.cell = NoCell, !.output = <<>>,
                                 !.replacement_cell = NoCell, !.replacement_meta = FALSE,
                                 !.rule = 0, !.restarts = 0, !.result = ResultNone]
    IN  IF ~r.ok
        THEN pc' = "panic" /\ hist' = [hist EXCEPT !.calls = <<>>] /\ UNCHANGED <<rewriter, queue>>
        ELSE /\ hist' = [hist EXCEPT !.calls = <<>>, !.notified = @ \cup net_replaced(net, new_value[1])]
             /\ added_cells' = IF added THEN added_cells \o SlotsOf(cell, index) ELSE added_cells
             /\ replaced_nets' = r.nets
             /\ rewriter' = [left EXCEPT
                               !.cache = IF added THEN CacheInsert(@, cell, new_value) ELSE @,
                               !.processed = @ \cup {net} \cup (IF added THEN SeqSet(new_value) ELSE {})]
             /\ pc' = "run"
             /\ UNCHANGED <<replaced_cells, unalived_cells>>

\* process_cell has left its loop: its result goes back to run()
run_finish ==
    /\ pc = "finish"
    /\ LET item == rewriter.worklist[rewriter.item + 1] IN
       IF item.bit < 0 THEN run_cell(item, process_cell_result)
       ELSE run_cell_bit(item, process_cell_result)
    /\ UNCHANGED <<cells, caller, did_change>>

\* rewrite.rs:225-226: the worklist is at its end, run() returns
run_return ==
    /\ pc = "run"
    /\ rewriter.item >= Len(rewriter.worklist)
    /\ rewriter' = [rewriter EXCEPT !.done = TRUE]
    /\ pc' = "idle"
    /\ UNCHANGED <<cells, queue, caller, did_change, hist>>

\* rewrite.rs:239: self.compact()
rewrite_compact ==
    /\ rewriter.done
    /\ ~hist.ran
    /\ compact_begin

(***************************************************************************)
(* A rewrite pass on the designs of RewriteSlots slots: inputs, buffers,   *)
(* a two-bit Not, flip-flops and outputs whose operands point to the       *)
(* previous and to the next slot, around the end of the arena.             *)
(***************************************************************************)
RewriteBlueprints ==
    {[kind |-> "Input", purity |-> "Pure", len |-> 1, to |-> <<>>],
     [kind |-> "Buf", purity |-> "Pure", len |-> 1, to |-> <<"prev">>],
     [kind |-> "Buf", purity |-> "Pure", len |-> 1, to |-> <<"next">>],
     [kind |-> "Not", purity |-> "Pure", len |-> 2, to |-> <<"prev", "far">>],
     [kind |-> "Dff", purity |-> "Pure", len |-> 1, to |-> <<"next">>],
     [kind |-> "Output", purity |-> "Pure", len |-> 0, to |-> <<"prev">>]}

RECURSIVE RewriteDesignFrom(_, _, _)
RewriteDesignFrom(row, index, n) ==
    IF index >= n THEN <<>>
    ELSE LET cell == TopoCellOf(row[index], index, n)
             fits == IF index + Max(output_len(cell), 1) <= n THEN cell
                     ELSE MkCell("Input", <<>>, 1)
         IN  SlotsOf(fits, index) \o RewriteDesignFrom(row, index + Max(output_len(fits), 1), n)

RewriteInit ==
    /\ \E row \in [0..(RewriteSlots - 1) -> RewriteBlueprints] :
          cells = RewriteDesignFrom(row, 0, RewriteSlots)
    /\ OperandsWereOutputs(cells)
    /\ added_cells = <<>>
    /\ replaced_cells = EmptyMap
    /\ unalived_cells = {}
    /\ replaced_nets = EmptyMap
    /\ pc = "idle"
    /\ caller = "none"
    /\ did_change = FALSE
    /\ hist = NoHist
    /\ rewriter = NoRewriter

RewriteNext ==
    \/ rewrite_begin
    \/ run_item
    \/ rule_rewrite
    \/ run_finish
    \/ run_return
    \/ rewrite_compact
    \/ apply_unalive
    \/ apply_replace
    \/ apply_extend
    \/ apply_nets
    \/ compact_body

SpecRewrite == RewriteInit /\ [][RewriteNext]_vars

\* a pass is inside run()
InRun == pc \in {"run", "rules", "finish"}

\* where index stands in a sequence of indices
PosIn(order, index) == CHOOSE k \in 1..Len(order) : order[k] = index

\* C5, as stated, in its weakest reading: when the apply() that ends a pass has returned
\* (and so at every later point), no operand of a live cell refers to a tombstoned cell
C5_Original ==
    (hist.ran /\ pc = "compact") =>
        \A i \in LiveIndices(cells) : \A net \in ArgSet(CellAt(cells, i)) :
            is_const(net) \/ CellAt(cells, as_cell_index(net)).kind # "Void"

\* C9: the driver enters the rule loop for every item of the worklist at most once, in the
\* topological order of the design the pass started on, whatever the rules return
C9_EachCellOnceInOrder ==
    InRun =>
        LET order == iter_cells_topo(hist.original).result
            visits == hist.visits
        IN  /\ \A k \in 1..Len(visits) :
                  /\ visits[k].cell \in LiveIndices(hist.original)
                  /\ visits[k].bit < output_len(CellAt(hist.original, visits[k].cell))
            /\ \A j, k \in 1..Len(visits) : j < k =>
                  /\ visits[j] # visits[k]
                  /\ PosIn(order, visits[j].cell) <= PosIn(order, visits[k].cell)
                  /\ visits[j].cell = visits[k].cell => 0 <= visits[j].bit /\ visits[j].bit < visits[k].bit

\* run() has returned: every cell was visited, one was replaced, one was tombstoned, and
\* the order of the visits is not the order of the arena
C9_Witness ==
    /\ rewriter.done
    /\ ~hist.ran
    /\ {hist.visits[k].cell : k \in 1..Len(hist.visits)} = LiveIndices(cells)
    /\ replaced_cells # EmptyMap
    /\ unalived_cells # {}
    /\ \E j, k \in 1..Len(hist.visits) : j < k /\ hist.visits[j].cell > hist.visits[k].cell

\* C10: the rules are called left to right; after a Cell or CellMeta result the next call is
\* the first rule on the returned cell; the loop is left only after a Value result or
\* after a sweep in which every rule returned None
C10_RuleSweeps ==
    LET calls == hist.calls
        n == Len(calls)
        SweepOfNone == /\ n >= Len(rules)
                       /\ \A r \in 1..Len(rules) :
                             LET call == calls[n - Len(rules) + r] IN
                             /\ call.rule = r
                             /\ call.kind = "None"
                             /\ call.cell = calls[n].cell
    IN  /\ n > 0 => calls[1].rule = 1 /\ calls[1].cell = rewriter.cell
        /\ \A k \in 1..(n - 1) :
              CASE calls[k].kind = "None" ->
                     calls[k + 1].rule = calls[k].rule + 1 /\ calls[k + 1].cell = calls[k].cell
                [] calls[k].kind \in {"Cell", "CellMeta"} ->
                     calls[k + 1].rule = 1 /\ calls[k + 1].cell = calls[k].to
                [] OTHER -> FALSE
        /\ pc = "finish" => n > 0 /\ (calls[n].kind = "Value" \/ SweepOfNone)
        /\ pc = "rules" =>
              /\ rewriter.rule \in 1..Len(rules)
              /\ n > 0 => /\ calls[n].kind # "Value"
                          /\ ~(calls[n].kind = "None" /\ calls[n].rule = Len(rules))
                          /\ rewriter.rule = IF calls[n].kind = "None" THEN calls[n].rule + 1 ELSE 1
                          /\ cur_cell = IF calls[n].kind = "None" THEN calls[n].cell ELSE calls[n].to

\* the loop was left after a sweep of None that followed a Cell result of the last rule
\* and a CellMeta result of the first
C10_Witness ==
    /\ pc = "finish"
    /\ hist.calls[Len(hist.calls)].kind = "None"
    /\ \E k \in 1..Len(hist.calls) : hist.calls[k].kind = "Cell" /\ hist.calls[k].rule = Len(rules)
    /\ \E k \in 1..Len(hist.calls) : hist.calls[k].kind = "CellMeta" /\ hist.calls[k].rule = 1

\* C11: whenever run() has gone through its Value arm for a visited cell, the value has the
\* length of the cell's output, every output net that differs from its new net is queued to
\* be replaced by it, every rule set was told of every pair through net_replaced, the output
\* nets count as processed and the cell is tombstoned; a value of another length is never
\* carried out, the pass stops on it
C11_ValueReplacesAndTombstones ==
    \A e \in hist.ended :
        IF e.carried
        THEN /\ Len(e.value) = Len(e.output)
             /\ \A k \in 1..Len(e.output) :
                   /\ e.output[k] # e.value[k] =>
                         /\ e.output[k] \in DOMAIN replaced_nets
                         /\ replaced_nets[e.output[k]] = e.value[k]
                   /\ \A r \in 1..Len(rules) :
                         [rule |-> r, from |-> e.output[k], to |-> e.value[k]] \in hist.notified
                   /\ e.output[k] \in rewriter.processed
             /\ e.cell \in unalived_cells
        ELSE /\ pc = "panic"
             /\ Len(e.value) # Len(e.output)
             /\ e.cell \notin unalived_cells

\* run() has returned from a pass in which two rule loops ended with a value, one of them
\* the output of another cell
C11_Witness ==
    /\ rewriter.done
    /\ ~hist.ran
    /\ \E e, f \in hist.ended :
          /\ e.cell # f.cell
          /\ e.carried /\ f.carried
          /\ ~is_const(e.value[1])
          /\ e.value # e.output

\* the output nets of the items the pass dealt with before the one it is at
OutputsOfEarlierVisits ==
    UNION {LET item == hist.visits[k] IN
           IF item.bit < 0 THEN SeqSet(CellOutput(hist.original, item.cell))
           ELSE {from_cell_index(item.cell + item.bit)} : k \in 1..(Len(hist.visits) - 1)}

\* the outputs of the cells that were added in this pass
OutputsOfAddedCells == {from_cell_index(Len(cells) + k - 1) : k \in 1..Len(added_cells)}

\* C12: in every call of a rule set, find_cell has answered Opaque, and so shown no cell,
\* for every net that is neither a constant nor an output of an item the pass dealt with
\* before nor an output of a cell added in the pass
C12_UnprocessedIsOpaque ==
    pc \in {"rules", "finish"} =>
        \A k \in 1..Len(hist.calls) : \A net \in DOMAIN hist.calls[k].found :
            LET source == hist.calls[k].found[net] IN
            (~is_const(net) /\ net \notin OutputsOfEarlierVisits \cup OutputsOfAddedCells) =>
                source = SourceOpaque /\ source.cell = NoCell

\* a rule set was called on a cell with one operand that find_cell answered Opaque for,
\* the output of a cell later in the order, after a cell whose operand was looked up
C12_Witness ==
    /\ pc = "finish"
    /\ \E net \in DOMAIN hist.calls[1].found :
          /\ hist.calls[1].found[net].kind = "Opaque"
          /\ CellAt(cells, as_cell_index(net)).kind # "Void"
    /\ Len(hist.visits) > 1
    /\ \E net \in rewriter.processed : find_cell(net).kind = "Cell"

(***************************************************************************)
(* design.rewrite(&[&Normalize]), once and once again, on the designs of   *)
(* NormalizeSlots slots that end with an output of two bits: inputs,       *)
(* buffers, inverters, commutative cells, flip-flops and target cells      *)
(* with state, whose operands are a constant or the output of the          *)
(* previous, the next or the second next slot, around the end of the       *)
(* arena.                                                                  *)
(***************************************************************************)
NormalizeSlots == 4
MaxPasses == 2

NormalizeBlueprints ==
    {[kind |-> "Input", purity |-> "None", len |-> 1, to |-> <<>>],
     [kind |-> "Buf", purity |-> "None", len |-> 1, to |-> <<"zero">>],
     [kind |-> "Buf", purity |-> "None", len |-> 1, to |-> <<"next">>],
     [kind |-> "Buf", purity |-> "None", len |-> 1, to |-> <<"far">>],
     [kind |-> "Not", purity |-> "None", len |-> 1, to |-> <<"zero">>],
     [kind |-> "Not", purity |-> "None", len |-> 1, to |-> <<"prev">>],
     [kind |-> "Not", purity |-> "None", len |-> 2, to |-> <<"prev", "far">>],
     [kind |-> "And", purity |-> "None", len |-> 1, to |-> <<"far", "prev">>],
     [kind |-> "And", purity |-> "None", len |-> 1, to |-> <<"next", "prev">>],
     [kind |-> "Dff", purity |-> "None", len |-> 1, to |-> <<"next">>],
     [kind |-> "Target", purity |-> "HasState", len |-> 1, to |-> <<"prev">>],
     [kind |-> "Target", purity |-> "HasState", len |-> 1, to |-> <<"zero">>]}

NormalizeCellOf(blueprint, index, n) ==
    LET args == [k \in DOMAIN blueprint.to |->
                    IF blueprint.to[k] = "zero" THEN ZERO
                    ELSE TopoOperandAt(blueprint.to[k], index, n)]
    IN  IF blueprint.kind = "Target" THEN MkTarget(blueprint.purity, args, blueprint.len)
        ELSE MkCell(blueprint.kind, args, blueprint.len)

\* the cells of the slots from index on; the last slot holds the output, and a cell that
\* would not fit before it gives way to an input
RECURSIVE NormalizeDesignFrom(_, _, _)
NormalizeDesignFrom(row, index, n) ==
    IF index >= n - 1
    THEN <<MkCell("Output", <<TopoOperandAt("prev", n - 1, n), TopoOperandAt("far", n - 1, n)>>, 0)>>
    ELSE LET cell == NormalizeCellOf(row[index], index, n)
             fits == IF index + output_len(cell) <= n - 1 THEN cell ELSE MkCell("Input", <<>>, 1)
         IN  SlotsOf(fits, index) \o NormalizeDesignFrom(row, index + output_len(fits), n)

NormalizeInit ==
    /\ \E row \in [0..(NormalizeSlots - 2) -> NormalizeBlueprints] :
          cells = NormalizeDesignFrom(row, 0, NormalizeSlots)
    /\ OperandsWereOutputs(cells) = TRUE
    /\ added_cells = <<>>
    /\ replaced_cells = EmptyMap
    /\ unalived_cells = {}
    /\ replaced_nets = EmptyMap
    /\ pc = "idle"
    /\ caller = "none"
    /\ did_change = FALSE
    /\ hist = NoHist
    /\ rewriter = NoRewriter

\* Design::rewrite has returned
RewriteReturned == pc = "idle" /\ rewriter.done /\ hist.compacted

\* design.rewrite(&[&Normalize]) on a design as built, or on what the pass before left
normalize_begin ==
    /\ rewriter = NoRewriter \/ RewriteReturned
    /\ Len(hist.designs) < MaxPasses
    /\ Design_rewrite(<<"Normalize">>)

NormalizeNext ==
    \/ normalize_begin
    \/ run_item
    \/ rule_rewrite
    \/ run_finish
    \/ run_return
    \/ rewrite_compact
    \/ apply_unalive
    \/ apply_replace
    \/ apply_extend
    \/ apply_nets
    \/ compact_body

SpecNormalize == NormalizeInit /\ [][NormalizeNext]_vars

\* two cells without side effects of the same kind over the same operands
Duplicates(cs) ==
    {pair \in LiveIndices(cs) \X LiveIndices(cs) :
        /\ pair[1] < pair[2]
        /\ ~has_effects(CellAt(cs, pair[1]))
        /\ CellAt(cs, pair[1]) = CellAt(cs, pair[2])}

\* C13, as stated: when Design::rewrite has returned, no two distinct cells without side
\* effects have the same kind and the same operands
C13_Original == RewriteReturned => Duplicates(cells) = {}

\* the design the pass that has returned last started on
PassStartedOn == hist.designs[Len(hist.designs)]

\* C13, amended: when Design::rewrite has returned on a design that had no combinational
\* cycle, no two distinct cells without side effects that are not emitted first by the
\* topological order (cells other than target cells with state) have the same kind and
\* the same operands
C13_NoCombinationalDuplicates ==
    (RewriteReturned /\ ~HasCombinationalCycle(PassStartedOn)) =>
        \A pair \in Duplicates(cells) : is_emitted_first(CellAt(cells, pair[1]))

\* the first pass has returned on a design without a combinational cycle that held the
\* same cell without side effects twice, and the cell is there once
C13_Witness ==
    /\ RewriteReturned
    /\ Len(hist.designs) = 1
    /\ ~HasCombinationalCycle(PassStartedOn)
    /\ \E pair \in Duplicates(PassStartedOn) :
          /\ ~is_emitted_first(CellAt(PassStartedOn, pair[1]))
          /\ \E i \in LiveIndices(cells) : CellAt(cells, i) = CellAt(PassStartedOn, pair[1])

MaxSweeps == 32

\* Design::find_new_cell and Rewriter::find_cell (rewrite.rs:76-84) of the pass rw
find_new_cell_in(rw, net) ==
    IF is_const(net) THEN SourceConst(net)
    ELSE LET all == rw.cells \o rw.added
             index == locate_cell(all, net)
             cell == IF index \in DOMAIN rw.replaced_cells THEN rw.replaced_cells[index]
                     ELSE CellAt(all, index)
         IN  SourceCell(cell, as_cell_index(net) - index)

find_cell_in(rw, net) ==
    IF net \notin rw.processed /\ ~is_const(net) THEN SourceOpaque ELSE find_new_cell_in(rw, net)

\* RewriteResult of a control net (rewrite.rs:28-35)
ResultControlNet(cnet) ==
    IF cnet.neg THEN ResultCell(MkCell("Not", <<cnet.net>>, 1)) ELSE ResultValue(<<cnet.net>>)

\* what a call of rewrite() leaves to do: `adds` are the cells it hands to
\* Rewriter::add_cell, in order.  A result of kind "NotOf" is Cell::Not over what the one
\* add returned ("NotOfMeta" when it comes as CellMeta); a result of kind "ValueOf" is the
\* value made of what the adds returned, each one handed to a second add_cell as the
\* operand of a Cell::Not when wraps is 1
Plan(result) == [result |-> result, adds |-> <<>>, wraps |-> 0]
PlanNotOf(cell, meta) ==
    [result |-> [kind |-> IF meta THEN "NotOfMeta" ELSE "NotOf", cell |-> NoCell, value |-> <<>>],
     adds |-> <<cell>>, wraps |-> 0]
PlanValueOf(adds, wraps) ==
    [result |-> [kind |-> "ValueOf", cell |-> NoCell, value |-> <<>>], adds |-> adds, wraps |-> wraps]

\* the first result of a sequence of results in the order of the code, None when it is empty
FirstOf(plans) == IF plans = <<>> THEN Plan(ResultNone) ELSE Head(plans)
When(cond, plan) == IF cond THEN <<plan>> ELSE <<>>

\* for (x, y) in [(c1, c2), (c2, c1)] over the operands of an Aig cell, and over the nets
\* of bit `bit` of the operands of a Xor cell
AigBothWays(cell) ==
    <<(<<AigOperand(cell, 1), AigOperand(cell, 2)>>), (<<AigOperand(cell, 2), AigOperand(cell, 1)>>)>>
XorBothWays(cell, bit) ==
    LET net1 == cell.args[bit + 1]
        net2 == cell.args[output_len(cell) + bit + 1]
    IN  <<(<<net1, net2>>), (<<net2, net1>>)>>
ForBoth(pairs, Body(_, _)) == Body(pairs[1][1], pairs[1][2]) \o Body(pairs[2][1], pairs[2][2])

IsCellOf(src, kind) == src.kind = "Cell" /\ src.cell.kind = kind

\* aig.rs:70-88: Cell::Not of one bit
SimpleAigOpt_not(rw, cell) ==
    LET net == cell.args[1]
        src == find_cell_in(rw, net)
    IN
    FirstOf(
        When(net = ZERO, Plan(ResultValue(<<ONE>>)))
        \o When(net = ONE, Plan(ResultValue(<<ZERO>>)))
        \o When(net = UNDEF, Plan(ResultValue(<<UNDEF>>)))
        \o When(IsCellOf(src, "Not"), Plan(ResultValue(<<src.cell.args[src.bit + 1]>>))))

\* aig.rs:118-150: (aa & ab) & b
SimpleAigOpt_aig_pos(net_a, net_b, src_a, src_b) ==
    IF IsCellOf(src_a, "Aig") /\ ~net_a.neg
    THEN ForBoth(AigBothWays(src_a.cell), LAMBDA net_aa, net_ab :
            When(net_aa = net_b, Plan(ResultControlNet(net_a)))
            \o When(net_aa = ControlNet_not(net_b), Plan(ResultValue(<<ZERO>>)))
            \o (IF IsCellOf(src_b, "Aig") /\ ~net_b.neg
                THEN ForBoth(AigBothWays(src_b.cell), LAMBDA net_ba, net_bb :
                        When(net_aa = net_ba, Plan(ResultCell(MkAig(net_a, net_bb))))
                        \o When(net_aa = ControlNet_not(net_ba), Plan(ResultValue(<<ZERO>>))))
                ELSE <<>>))
    ELSE <<>>

\* aig.rs:152-208: ~(aa & ab) & b
SimpleAigOpt_aig_neg(net_a, net_b, src_a, src_b) ==
    IF IsCellOf(src_a, "Aig") /\ net_a.neg
    THEN ForBoth(AigBothWays(src_a.cell), LAMBDA net_aa, net_ab :
            When(net_aa = net_b, Plan(ResultCell(MkAig(ControlNet_not(net_ab), net_b))))
            \o When(net_aa = ControlNet_not(net_b), Plan(ResultControlNet(net_b)))
            \o (IF IsCellOf(src_b, "Aig") /\ ~net_b.neg
                THEN ForBoth(AigBothWays(src_b.cell), LAMBDA net_ba, net_bb :
                        When(net_aa = net_ba, Plan(ResultCell(MkAig(ControlNet_not(net_ab), net_b))))
                        \o When(net_aa = ControlNet_not(net_ba), Plan(ResultControlNet(net_b))))
                ELSE <<>>)
            \o (IF IsCellOf(src_b, "Aig") /\ net_b.neg
                THEN ForBoth(AigBothWays(src_b.cell), LAMBDA net_ba, net_bb :
                        When(net_aa = ControlNet_not(net_ba) /\ net_ab = net_bb,
                             Plan(ResultControlNet(ControlNet_not(net_ab))))
                        \o When(net_aa = ControlNet_not(net_ba) /\ net_ab = ControlNet_not(net_bb),
                                LET xor == MkCell("Xor", <<net_aa.net, net_ab.net>>, 1) IN
                                IF net_aa.neg # net_ab.neg THEN PlanNotOf(xor, FALSE)
                                ELSE Plan(ResultCellMeta(xor))))
                ELSE <<>>))
    ELSE <<>>

\* aig.rs:210-244: (aa ^ ab) & b
SimpleAigOpt_aig_xor(net_a, net_b, src_a, src_b) ==
    IF IsCellOf(src_a, "Xor")
    THEN ForBoth(XorBothWays(src_a.cell, src_a.bit), LAMBDA net_aa, net_ab :
            When(net_aa = net_b.net,
                 Plan(ResultCell(MkAig(from_net_invert(net_ab, ~(net_a.neg # net_b.neg)), net_b))))
            \o (IF IsCellOf(src_b, "Aig") /\ ~net_b.neg
                THEN ForBoth(AigBothWays(src_b.cell), LAMBDA net_ba, net_bb :
                        When(net_aa = net_ba.net,
                             Plan(ResultCell(MkAig(from_net_invert(net_ab, ~(net_a.neg # net_ba.neg)),
                                                   net_b)))))
                ELSE <<>>))
    ELSE <<>>

\* aig.rs:90-248: Cell::Aig, one turn of the loop over (net1, net2) and (net2, net1)
SimpleAigOpt_aig_turn(rw, net_a, net_b) ==
    LET src_a == find_cell_in(rw, net_a.net)
        src_b == find_cell_in(rw, net_b.net)
    IN  When(net_a = net_b, Plan(ResultControlNet(net_a)))
        \o When(net_a = ControlNet_not(net_b) \/ is_always(net_b, FALSE), Plan(ResultValue(<<ZERO>>)))
        \o When(is_always(net_b, TRUE), Plan(ResultControlNet(net_a)))
        \o When(IsCellOf(src_a, "Not"),
                Plan(ResultCellMeta(MkAig(from_net_invert(src_a.cell.args[src_a.bit + 1], ~net_a.neg),
                                          net_b))))
        \o SimpleAigOpt_aig_pos(net_a, net_b, src_a, src_b)
        \o SimpleAigOpt_aig_neg(net_a, net_b, src_a, src_b)
        \o SimpleAigOpt_aig_xor(net_a, net_b, src_a, src_b)

SimpleAigOpt_aig(rw, cell) ==
    FirstOf(ForBoth(AigBothWays(cell), LAMBDA net_a, net_b : SimpleAigOpt_aig_turn(rw, net_a, net_b)))

\* a variant of SimpleAigOpt_xor_turn: a ^ X -> X is tried before a ^ a -> 0
SimpleAigOpt_xor_turn_undef_first(rw, net_a, net_b) ==
    LET src_a == find_cell_in(rw, net_a)
        src_b == find_cell_in(rw, net_b)
    IN  When(net_b = UNDEF, Plan(ResultValue(<<UNDEF>>)))
        \o When(net_a = net_b, Plan(ResultValue(<<ZERO>>)))
        \o When(net_b = ZERO, Plan(ResultValue(<<net_a>>)))
        \o When(net_b = ONE, Plan(ResultCell(MkCell("Not", <<net_a>>, 1))))
        \o When(IsCellOf(src_a, "Not"),
                PlanNotOf(MkCell("Xor", <<src_a.cell.args[src_a.bit + 1], net_b>>, 1), TRUE))
        \o (IF IsCellOf(src_a, "Aig")
            THEN ForBoth(AigBothWays(src_a.cell), LAMBDA net_aa, net_ab :
                    When(net_aa = ControlNet_Pos(net_b),
                         Plan(ResultCellMeta(MkAig(net_aa, ControlNet_not(net_ab)))))
                    \o When(net_aa = ControlNet_Neg(net_b),
                            PlanNotOf(MkAig(net_aa, ControlNet_not(net_ab)), TRUE)))
            ELSE <<>>)
        \o (IF IsCellOf(src_a, "Xor")
            THEN ForBoth(XorBothWays(src_a.cell, src_a.bit), LAMBDA net_aa, net_ab :
                    When(net_aa = net_b, Plan(ResultValue(<<net_ab>>)))
                    \o (IF IsCellOf(src_b, "Xor")
                        THEN ForBoth(XorBothWays(src_b.cell, src_b.bit), LAMBDA net_ba, net_bb :
                                When(net_aa = net_ba,
                                     Plan(ResultCellMeta(MkCell("Xor", <<net_ab, net_bb>>, 1)))))
                        ELSE <<>>))
            ELSE <<>>)

\* aig.rs:250-326: Cell::Xor of one bit, one turn of the loop over (net1, net2) and (net2, net1)
SimpleAigOpt_xor_turn(rw, net_a, net_b) ==
    LET src_a == find_cell_in(rw, net_a)
        src_b == find_cell_in(rw, net_b)
    IN  When(net_a = net_b, Plan(ResultValue(<<ZERO>>)))
        \o When(net_b = UNDEF, Plan(ResultValue(<<UNDEF>>)))
        \o When(net_b = ZERO, Plan(ResultValue(<<net_a>>)))
        \o When(net_b = ONE, Plan(ResultCell(MkCell("Not", <<net_a>>, 1))))
        \o When(IsCellOf(src_a, "Not"),
                PlanNotOf(MkCell("Xor", <<src_a.cell.args[src_a.bit + 1], net_b>>, 1), TRUE))
        \o (IF IsCellOf(src_a, "Aig")
            THEN ForBoth(AigBothWays(src_a.cell), LAMBDA net_aa, net_ab :
                    When(net_aa = ControlNet_Pos(net_b),
                         Plan(ResultCellMeta(MkAig(net_aa, ControlNet_not(net_ab)))))
                    \o When(net_aa = ControlNet_Neg(net_b),
                            PlanNotOf(MkAig(net_aa, ControlNet_not(net_ab)), TRUE)))
            ELSE <<>>)
        \o (IF IsCellOf(src_a, "Xor")
            THEN ForBoth(XorBothWays(src_a.cell, src_a.bit), LAMBDA net_aa, net_ab :
                    When(net_aa = net_b, Plan(ResultValue(<<net_ab>>)))
                    \o (IF IsCellOf(src_b, "Xor")
                        THEN ForBoth(XorBothWays(src_b.cell, src_b.bit), LAMBDA net_ba, net_bb :
                                When(net_aa = net_ba,
                                     Plan(ResultCellMeta(MkCell("Xor", <<net_ab, net_bb>>, 1)))))
                        ELSE <<>>))
            ELSE <<>>)

SimpleAigOpt_xor(rw, cell) ==
    FirstOf(ForBoth(XorBothWays(cell, 0), LAMBDA net_a, net_b : SimpleAigOpt_xor_turn(rw, net_a, net_b)))

\* a variant of SimpleAigOpt_bits: an And cell is left as it is
SimpleAigOpt_bits_but_and(cell) ==
    CASE cell.kind = "Not" ->
            PlanValueOf([k \in 1..output_len(cell) |-> MkCell("Not", <<cell.args[k]>>, 1)], 0)
      [] cell.kind = "Xor" ->
            PlanValueOf([k \in 1..output_len(cell) |->
                            MkCell("Xor", <<cell.args[k], cell.args[output_len(cell) + k]>>, 1)], 0)
      [] cell.kind = "And" -> Plan(ResultNone)
      [] cell.kind = "Or" ->
            PlanValueOf([k \in 1..output_len(cell) |->
                            MkAig(ControlNet_Neg(cell.args[k]),
                                  ControlNet_Neg(cell.args[output_len(cell) + k]))], 1)

\* aig.rs:339-370: a Not or a Xor of several bits is split into cells of one bit, And
\* and Or become Aig cells bit by bit; an Or takes two add_cell per bit, the second one
\* the Not of the first
SimpleAigOpt_bits(cell) ==
    LET n == output_len(cell)
        a(k) == cell.args[k]
        b(k) == cell.args[n + k]
    IN  CASE cell.kind = "Not" ->
                PlanValueOf([k \in 1..n |-> MkCell("Not", <<a(k)>>, 1)], 0)
          [] cell.kind = "Xor" ->
                PlanValueOf([k \in 1..n |-> MkCell("Xor", <<a(k), b(k)>>, 1)], 0)
          [] cell.kind = "And" ->
                PlanValueOf([k \in 1..n |-> MkAig(ControlNet_Pos(a(k)), ControlNet_Pos(b(k)))], 0)
          [] cell.kind = "Or" ->
                PlanValueOf([k \in 1..n |-> MkAig(ControlNet_Neg(a(k)), ControlNet_Neg(b(k)))], 1)

\* aig.rs:68-374: SimpleAigOpt::rewrite up to its calls of Rewriter::add_cell
SimpleAigOpt_plan(rw, cell) ==
    IF cell.kind = "Not" /\ Len(cell.args) = 1 THEN SimpleAigOpt_not(rw, cell)
    ELSE IF cell.kind = "Aig" THEN SimpleAigOpt_aig(rw, cell)
    ELSE IF cell.kind = "Xor" /\ output_len(cell) = 1 THEN SimpleAigOpt_xor(rw, cell)
    ELSE IF cell.kind \in {"Not", "Xor", "And", "Or"} THEN SimpleAigOpt_bits(cell)
    ELSE Plan(ResultNone)

\* Cell::has_state: flip-flops and target cells with state
has_state(cell) == cell.kind = "Dff" \/ (cell.kind = "Target" /\ cell.purity = "HasState")

\* LevelAnalysis::get (level.rs:14-16)
LevelAnalysis_get(levels, net) == IF net \in DOMAIN levels THEN levels[net] ELSE 0

MaxOf(S) == IF S = {} THEN 0 ELSE CHOOSE x \in S : \A y \in S : y <= x

\* a variant of LevelAnalysis_not: a Not is one level above its input
RECURSIVE LevelAnalysis_not_counted(_, _, _, _)
LevelAnalysis_not_counted(levels, output, input, k) ==
    IF k > Len(output) \/ k > Len(input) THEN levels
    ELSE LevelAnalysis_not_counted(
             MapPut(levels, output[k], LevelAnalysis_get(levels, input[k]) + 1), output, input, k + 1)

\* level.rs:22-26: the output bits of a Not take the levels of its input bits, one by one
RECURSIVE LevelAnalysis_not(_, _, _, _)
LevelAnalysis_not(levels, output, input, k) ==
    IF k > Len(output) \/ k > Len(input) THEN levels
    ELSE LevelAnalysis_not(MapPut(levels, output[k], LevelAnalysis_get(levels, input[k])),
                           output, input, k + 1)

\* a variant of LevelAnalysis_level: two above the highest level of the operands
LevelAnalysis_level_steep(levels, cell) ==
    MaxOf({LevelAnalysis_get(levels, net) + 2 : net \in {x \in ArgSet(cell) : ~is_const(x)}})

\* level.rs:28-34: one above the highest level of the operands that are no constants
LevelAnalysis_level(levels, cell) ==
    MaxOf({LevelAnalysis_get(levels, net) + 1 : net \in {x \in ArgSet(cell) : ~is_const(x)}})

\* level.rs:20-39: LevelAnalysis::cell_added
LevelAnalysis_cell_added(levels, cell, output) ==
    IF cell.kind = "Not" THEN LevelAnalysis_not(levels, output, cell.args, 1)
    ELSE IF ~has_state(cell)
    THEN LET level == LevelAnalysis_level(levels, cell) IN
         [net \in DOMAIN levels \cup SeqSet(output) |->
             IF net \in SeqSet(output) THEN level ELSE levels[net]]
    ELSE levels

\* a variant of LevelAnalysis_net_replaced: the notification is ignored
LevelAnalysis_net_replaced_ignored(levels, from_net, to_net) == levels

\* level.rs:41-46: LevelAnalysis::net_replaced
LevelAnalysis_net_replaced(levels, from_net, to_net) ==
    IF to_net \in DOMAIN levels THEN MapPut(levels, from_net, levels[to_net]) ELSE levels

\* a map without one of its keys, and with the entry of one key moved to another
MapRemove(m, k) == [x \in DOMAIN m \ {k} |-> m[x]]
MapMove(m, from_key, to_key) ==
    IF from_key \in DOMAIN m THEN MapPut(MapRemove(m, from_key), to_key, m[from_key]) ELSE m

\* rewrite.rs:142-144, 164-166: rule.cell_added of every rule set; LevelAnalysis is the one
\* rule set that implements it
cell_added_in(rw, cell, output) ==
    IF \E r \in DOMAIN rw.rules : rw.rules[r] = "LevelAnalysis"
    THEN [rw EXCEPT !.levels = LevelAnalysis_cell_added(@, cell, output)]
    ELSE rw

\* chain_rebalance.rs:272-287: the chain of `from` is copied to `to` when `to` has none
MapCopy(m, from_net, to_net) ==
    IF from_net \in DOMAIN m /\ to_net \notin DOMAIN m THEN MapPut(m, to_net, m[from_net]) ELSE m

\* rewrite.rs:203-205, 219-221: rule.net_replaced of every rule set (level.rs:41-46,
\* tree_rebalance.rs:153-162, chain_rebalance.rs:272-287)
net_replaced_in(rw, from_net, to_net) ==
    LET has(name) == \E r \in DOMAIN rw.rules : rw.rules[r] = name IN
    [rw EXCEPT !.levels = IF has("LevelAnalysis") THEN LevelAnalysis_net_replaced(@, from_net, to_net)
                          ELSE @,
               !.aig_trees = IF has("TreeRebalance") THEN MapMove(@, from_net, to_net) ELSE @,
               !.xor_trees = IF has("TreeRebalance") THEN MapMove(@, from_net, to_net) ELSE @,
               !.aig_chains = IF has("ChainRebalance") THEN MapCopy(@, from_net, to_net) ELSE @,
               !.xor_chains = IF has("ChainRebalance") THEN MapCopy(@, from_net, to_net) ELSE @]

\* Design::replace_net (design.rs:139-145) on the change queue of rw
replace_net_in(rw, from_net, to_net) ==
    IF from_net = to_net THEN rw
    ELSE IF from_net \in DOMAIN rw.replaced_nets THEN [rw EXCEPT !.panic = TRUE]
    ELSE [rw EXCEPT !.replaced_nets = MapPut(@, from_net, to_net)]

\* CellRef::replace (design.rs:250-256) on the change queue of rw
CellRef_replace_in(rw, index, to_cell) ==
    IF CellAt(rw.cells, index) = to_cell THEN rw
    ELSE IF index \in DOMAIN rw.replaced_cells THEN [rw EXCEPT !.panic = TRUE]
    ELSE [rw EXCEPT !.replaced_cells = MapPut(@, index, to_cell)]

\* the pass has stopped: in a panic, or in a loop that does not end
Stopped(rw) == rw.panic \/ rw.spins \/ rw.gave_up

\* rw as the rule sets see it: the count of restarts is no part of what they look at
Seen(rw) == [rw EXCEPT !.restarts = 0]

\* the locals of process_cell (rewrite.rs:87-88) when its loop starts on a cell; `seen`
\* are the cells the loop has started a sweep of the rule sets on while the pass was as
\* in `at`
LoopStart(rw, cell) ==
    [cur |-> cell, replaced |-> FALSE, meta |-> FALSE, rule |-> 1, seen |-> {cell}, at |-> Seen(rw)]

RECURSIVE process_cell_loop(_, _, _)
RECURSIVE add_cell_meta_output(_, _, _)
RECURSIVE add_cells(_, _, _, _, _, _)
RECURSIVE rewrite_in(_, _, _, _)

\* rewrite.rs:86-124: Rewriter::process_cell; output is <<>> for None
process_cell(rw, cell, output) == process_cell_loop(rw, LoopStart(rw, cell), output)

\* rewrite.rs:117-123: what process_cell returns once every rule set has answered None
process_cell_exit(rw, lp) ==
    [rw |-> rw,
     result |-> IF lp.cur \in DOMAIN rw.cache THEN ResultValue(rw.cache[lp.cur])
                ELSE IF ~lp.replaced THEN ResultNone
                ELSE IF lp.meta THEN ResultCellMeta(lp.cur)
                ELSE ResultCell(lp.cur)]

\* the answer r of a rule set is a cell the loop has started on before, with nothing
\* changed in between: the loop starts on it again for ever
LoopAgain(r, lp) == Seen(r.rw) = lp.at /\ r.result.cell \in lp.seen

\* rewrite.rs:96-114: the loop is left on the answer r of a rule set
LoopLeaves(r, lp) ==
    \/ Stopped(r.rw)
    \/ r.result.kind = "Value"
    \/ r.result.kind \in {"Cell", "CellMeta"} /\ (LoopAgain(r, lp) \/ r.rw.restarts >= MaxSweeps)

\* rewrite.rs:112: a Value is returned at once
LoopLeft(r, lp) ==
    IF Stopped(r.rw) THEN [rw |-> r.rw, result |-> ResultNone]
    ELSE IF r.result.kind = "Value" THEN r
    ELSE IF LoopAgain(r, lp) THEN [rw |-> [r.rw EXCEPT !.spins = TRUE], result |-> ResultNone]
    ELSE [rw |-> [r.rw EXCEPT !.gave_up = TRUE], result |-> ResultNone]

\* rewrite.rs:96-111: on None the next rule set is asked, on Cell and CellMeta the loop
\* starts again at the first rule set with the new cell
LoopNext(r, lp) ==
    IF r.result.kind = "None" THEN [lp EXCEPT !.rule = @ + 1]
    ELSE [cur |-> r.result.cell, replaced |-> TRUE,
          meta |-> (lp.meta \/ r.result.kind = "CellMeta"), rule |-> 1,
          seen |-> IF Seen(r.rw) = lp.at THEN lp.seen \cup {r.result.cell} ELSE {r.result.cell},
          at |-> Seen(r.rw)]
LoopRw(r) == IF r.result.kind = "None" THEN r.rw ELSE [r.rw EXCEPT !.restarts = @ + 1]

\* rewrite.rs:91-114: the loop of process_cell after the answer r of rule set lp.rule
process_cell_answer(r, lp, output) ==
    IF LoopLeaves(r, lp) THEN LoopLeft(r, lp)
    ELSE process_cell_loop(LoopRw(r), LoopNext(r, lp), output)

\* rewrite.rs:89-123: the loop of process_cell from rule set lp.rule on, and what
\* process_cell returns once the loop is left
process_cell_loop(rw, lp, output) ==
    IF Stopped(rw) THEN [rw |-> rw, result |-> ResultNone]
    ELSE IF lp.rule > Len(rw.rules) THEN process_cell_exit(rw, lp)
    ELSE process_cell_answer(rewrite_in(rw, rw.rules[lp.rule], lp.cur, output), lp, output)

\* rewrite.rs:138-151: add_cell_meta_output after process_cell has returned r
add_cell_processed(r, cell) ==
    IF Stopped(r.rw) THEN [rw |-> r.rw, value |-> [k \in 1..output_len(cell) |-> UNDEF]]
    ELSE IF r.result.kind = "Value" THEN [rw |-> r.rw, value |-> r.result.value]
    ELSE LET new_cell == IF r.result.kind = "None" THEN cell ELSE r.result.cell
             index == Len(r.rw.cells) + Len(r.rw.added)
             value == [k \in 1..output_len(new_cell) |-> from_cell_index(index + k - 1)]
             appended == [r.rw EXCEPT !.added = @ \o SlotsOf(new_cell, index)]
         IN  [rw |-> [cell_added_in(appended, new_cell, value)
                         EXCEPT !.processed = @ \cup SeqSet(value),
                                !.cache = CacheInsert(@, new_cell, value)],
              value |-> value]

\* rewrite.rs:134-152: Rewriter::add_cell_meta_output; Rewriter::add_cell is the same
\* with no output (rewrite.rs:126-132)
add_cell_meta_output(rw, cell, output) == add_cell_processed(process_cell(rw, cell, output), cell)

\* the cell of the s-th call of Rewriter::add_cell of one call of rewrite(): with wraps
\* every cell of adds is followed by the Not of the value it was added as
AddOf(adds, wraps, s, prev) ==
    IF wraps = 0 THEN adds[s]
    ELSE IF s % 2 = 1 THEN adds[(s + 1) \div 2]
    ELSE MkCell("Not", prev, Len(prev))

add_cells_next(r, adds, wraps, s, value) ==
    add_cells(r.rw, adds, wraps, s + 1, r.value,
              IF wraps = 1 /\ s % 2 = 1 THEN value ELSE value \o r.value)

\* the calls of Rewriter::add_cell of one call of rewrite(), from the s-th on
add_cells(rw, adds, wraps, s, prev, value) ==
    IF s > Len(adds) * (wraps + 1) THEN [rw |-> rw, value |-> value]
    ELSE add_cells_next(add_cell_meta_output(rw, AddOf(adds, wraps, s, prev), <<>>),
                        adds, wraps, s, value)

\* what rewrite() returns once its cells are added
SimpleAigOpt_result(rw, plan, done) ==
    CASE plan.result.kind = "NotOf" ->
            [rw |-> done.rw, result |-> ResultCell(MkCell("Not", done.value, Len(done.value)))]
      [] plan.result.kind = "NotOfMeta" ->
            [rw |-> done.rw, result |-> ResultCellMeta(MkCell("Not", done.value, Len(done.value)))]
      [] plan.result.kind = "ValueOf" -> [rw |-> done.rw, result |-> ResultValue(done.value)]
      [] OTHER -> [rw |-> rw, result |-> plan.result]

SimpleAigOpt_planned(rw, plan) ==
    SimpleAigOpt_result(rw, plan, add_cells(rw, plan.adds, plan.wraps, 1, <<>>, <<>>))

\* aig.rs:68-374: SimpleAigOpt::rewrite
SimpleAigOpt_rewrite(rw, cell) == SimpleAigOpt_planned(rw, SimpleAigOpt_plan(rw, cell))

(***************************************************************************)
(* TreeRebalance (generic/src/tree_rebalance.rs).                          *)
(***************************************************************************)
\* tree_rebalance.rs:22-27: how often a net is an operand of a cell of the design
RECURSIVE UseCountFrom(_, _, _)
UseCountFrom(cs, net, index) ==
    IF index >= Len(cs) THEN 0
    ELSE (IF IsLive(CellAt(cs, index))
          THEN Cardinality({k \in DOMAIN CellAt(cs, index).args : CellAt(cs, index).args[k] = net})
          ELSE 0) + UseCountFrom(cs, net, index + 1)
UseCount(cs, net) == UseCountFrom(cs, net, 0)

\* a variant of inner_aig_of: the nets used once, as an operand of an Aig of either polarity
inner_aig_of_inverted(cs) ==
    {net \in UNION {ArgSet(CellAt(cs, i)) : i \in LiveIndices(cs)} :
        /\ UseCount(cs, net) = 1
        /\ \E i \in LiveIndices(cs) : CellAt(cs, i).kind = "Aig" /\ net \in ArgSet(CellAt(cs, i))}

\* tree_rebalance.rs:28-37: the nets used once, as a positive operand of an Aig
inner_aig_of(cs) ==
    {net \in UNION {ArgSet(CellAt(cs, i)) : i \in LiveIndices(cs)} :
        /\ UseCount(cs, net) = 1
        /\ \E i \in LiveIndices(cs) : \E k \in DOMAIN CellAt(cs, i).args :
              /\ CellAt(cs, i).kind = "Aig"
              /\ CellAt(cs, i).args[k] = net
              /\ ~CellAt(cs, i).neg[k]}

\* tree_rebalance.rs:38-46: the nets used once, as an operand of a Xor
inner_xor_of(cs) ==
    {net \in UNION {ArgSet(CellAt(cs, i)) : i \in LiveIndices(cs)} :
        /\ UseCount(cs, net) = 1
        /\ \E i \in LiveIndices(cs) : CellAt(cs, i).kind = "Xor" /\ net \in ArgSet(CellAt(cs, i))}

\* an entry of the BinaryHeap of Reverse((level, net)) and the order of its pops: the
\* lowest level first, then the derived order of the control nets
HeapEntry(level, cnet) == [level |-> level, cnet |-> cnet]
HeapBefore(e1, e2) ==
    \/ e1.level < e2.level
    \/ e1.level = e2.level /\ cnet_gt(e2.cnet, e1.cnet)
\* a variant of HeapTop: the position of an entry of the highest level
HeapTop_highest(heap) == CHOOSE k \in DOMAIN heap : \A j \in DOMAIN heap : ~HeapBefore(heap[k], heap[j])
\* the position of an entry that pop() may return
HeapTop(heap) == CHOOSE k \in DOMAIN heap : \A j \in DOMAIN heap : ~HeapBefore(heap[j], heap[k])
HeapWithout(heap, k) == SubSeq(heap, 1, k - 1) \o SubSeq(heap, k + 1, Len(heap))

\* the set S as a sequence, in any order
RECURSIVE SetToSeq(_)
SetToSeq(S) == IF S = {} THEN <<>> ELSE LET x == CHOOSE y \in S : TRUE IN <<x>> \o SetToSeq(S \ {x})

\* tree_rebalance.rs:99-108, 138-146: the two entries of the lowest level give way to the
\* cell over them until one entry is left; unwrap() fails on a heap that was empty
RECURSIVE TreeRebalance_build(_, _, _)

\* the heap without the entry that pop() returns
HeapPopped(heap) == HeapWithout(heap, HeapTop(heap))

\* tree_rebalance.rs:101-104, 140-143: the cell over the two entries of the lowest level
TreeRebalance_cell(e1, e2, kind) ==
    IF kind = "Aig" THEN MkAig(e1.cnet, e2.cnet)
    ELSE MkCell("Xor", <<e1.cnet.net, e2.cnet.net>>, 1)

\* tree_rebalance.rs:105, 144: the cell is pushed one level over its operands
TreeRebalance_push(r, e1, e2, rest, kind) ==
    TreeRebalance_build(r.rw,
        Append(rest, HeapEntry(Max(e1.level, e2.level) + 1, ControlNet_Pos(r.value[1]))), kind)

TreeRebalance_pop(rw, e1, e2, rest, kind) ==
    TreeRebalance_push(add_cell_meta_output(rw, TreeRebalance_cell(e1, e2, kind), <<>>),
                       e1, e2, rest, kind)

\* tree_rebalance.rs:99-108, 138-146: the two entries of the lowest level give way to the
\* cell over them until one entry is left; unwrap() fails on a heap that was empty
TreeRebalance_build(rw, heap, kind) ==
    IF Stopped(rw) THEN [rw |-> rw, result |-> ResultNone]
    ELSE IF heap = <<>> THEN [rw |-> [rw EXCEPT !.panic = TRUE], result |-> ResultNone]
    ELSE IF Len(heap) = 1
    THEN [rw |-> rw, result |-> ResultControlNet(heap[1].cnet)]
    ELSE TreeRebalance_pop(rw, heap[HeapTop(heap)], HeapPopped(heap)[HeapTop(HeapPopped(heap))],
                           HeapPopped(HeapPopped(heap)), kind)

\* a variant of XorInputs: the leaves of the two trees are put together
XorInputs_union(inputs1, inputs2) == inputs1 \cup inputs2

\* tree_rebalance.rs:119-127: a leaf of both trees cancels out
XorInputs(inputs1, inputs2) == (inputs1 \ inputs2) \cup (inputs2 \ inputs1)

\* tree_rebalance.rs:58-75, 110-118: the operand as a leaf, or the leaves of the tree
\* that is stored under a positive operand
TreeLeaf(cnet, kind) == IF kind = "Aig" THEN cnet ELSE cnet.net
HasTree(trees, cnet) == ~cnet.neg /\ cnet.net \in DOMAIN trees
TreeInputs(trees, cnet, kind) ==
    IF HasTree(trees, cnet) THEN trees[cnet.net] ELSE {TreeLeaf(cnet, kind)}
\* HashMap::remove of the tree of an operand
TreeTaken(trees, cnet) == IF HasTree(trees, cnet) THEN MapRemove(trees, cnet.net) ELSE trees

\* tree_rebalance.rs:76-80, 119-127: the leaves of the two operands
TreeJoin(inputs1, inputs2, kind) ==
    IF kind = "Aig" THEN inputs1 \cup inputs2 ELSE XorInputs(inputs1, inputs2)

\* tree_rebalance.rs:93-98, 132-137: the leaves with their levels, as the heap
TreeHeap(levels, inputs, kind) ==
    SetToSeq({HeapEntry(LevelAnalysis_get(levels, IF kind = "Aig" THEN x.net ELSE x),
                        IF kind = "Aig" THEN x ELSE ControlNet_Pos(x)) : x \in inputs})

\* tree_rebalance.rs:81-108, 128-146: an inner node stores its leaves, a node of two
\* leaves stays, any other node is built again from its leaves
TreeRebalance_node(rw, kind, output, trees, inputs, inner) ==
    IF output[1] \in inner
    THEN [rw |-> IF kind = "Aig" THEN [rw EXCEPT !.aig_trees = MapPut(trees, output[1], inputs)]
                 ELSE [rw EXCEPT !.xor_trees = MapPut(trees, output[1], inputs)],
          result |-> ResultNone]
    ELSE IF Cardinality(inputs) = 2
    THEN [rw |-> IF kind = "Aig" THEN [rw EXCEPT !.aig_trees = trees]
                 ELSE [rw EXCEPT !.xor_trees = trees],
          result |-> ResultNone]
    ELSE TreeRebalance_build(IF kind = "Aig" THEN [rw EXCEPT !.aig_trees = trees]
                             ELSE [rw EXCEPT !.xor_trees = trees],
                             TreeHeap(rw.levels, inputs, kind), kind)

TreeRebalance_operands(rw, kind, output, trees, net1, net2, inner) ==
    TreeRebalance_node(rw, kind, output, TreeTaken(TreeTaken(trees, net1), net2),
                       TreeJoin(TreeInputs(trees, net1, kind),
                                TreeInputs(TreeTaken(trees, net1), net2, kind), kind),
                       inner)

\* tree_rebalance.rs:53-151: TreeRebalance::rewrite
TreeRebalance_rewrite(rw, cell, output) ==
    IF Len(output) # 1 \/ cell.kind \notin {"Aig", "Xor"} THEN [rw |-> rw, result |-> ResultNone]
    ELSE IF cell.kind = "Aig"
    THEN TreeRebalance_operands(rw, "Aig", output, rw.aig_trees,
                                AigOperand(cell, 1), AigOperand(cell, 2), rw.inner_aig)
    ELSE TreeRebalance_operands(rw, "Xor", output, rw.xor_trees,
                                ControlNet_Pos(cell.args[1]), ControlNet_Pos(cell.args[2]),
                                rw.inner_xor)

(***************************************************************************)
(* ChainRebalance (chain_rebalance.rs): a chain of cells whose operands    *)
(* come in at ever higher levels is kept as a list of full trees, highest  *)
(* level first, and is built again as the trees allow.                     *)
(***************************************************************************)
Last(s) == s[Len(s)]
Front(s) == SubSeq(s, 1, Len(s) - 1)

\* chain_rebalance.rs:29-35: PropGen::or and PropGen::and
PropGen_or(cnet) == [p |-> ControlNet_Pos(ONE), g |-> cnet]
PropGen_and(cnet) == [p |-> cnet, g |-> ControlNet_Pos(ZERO)]

\* chain_rebalance.rs:37-42: PropGen::combine, one add_cell after the other
PropGen_combined(r3, prop) ==
    [rw |-> r3.rw, pg |-> [p |-> ControlNet_Pos(prop), g |-> ControlNet_Neg(r3.value[1])]]
PropGen_genr(r2, prop, b) ==
    PropGen_combined(add_cell_meta_output(r2.rw, MkAig(ControlNet_Neg(r2.value[1]),
                                                       ControlNet_not(b.g)), <<>>), prop)
PropGen_tmp(r1, a, b) ==
    PropGen_genr(add_cell_meta_output(r1.rw, MkAig(a.g, b.p), <<>>), r1.value[1], b)
PropGen_combine(rw, a, b) ==
    PropGen_tmp(add_cell_meta_output(rw, MkAig(a.p, b.p), <<>>), a, b)

AigFullTree(level, pg, cumulative) == [level |-> level, pg |-> pg, cumulative |-> cumulative]
XorFullTree(level, net, cumulative_net) ==
    [level |-> level, net |-> net, cumulative_net |-> cumulative_net]

\* chain_rebalance.rs:107-121: the last tree is raised to min_level; a tree before it
\* that is not above min_level takes it in, as what that tree and all after it add up to
RECURSIVE AigChain_adjust(_, _, _)
AigChain_adjust(trees, top, min_level) ==
    IF top.level >= min_level THEN Append(trees, top)
    ELSE IF trees # <<>> /\ Last(trees).level <= min_level
    THEN AigChain_adjust(Front(trees),
                         AigFullTree(Last(trees).level + 1, Last(trees).cumulative,
                                     Last(trees).cumulative), min_level)
    ELSE Append(trees, [top EXCEPT !.level = min_level])

\* chain_rebalance.rs:219-233: the same for a chain of Xor cells
RECURSIVE XorChain_adjust(_, _, _)
XorChain_adjust(trees, top, min_level) ==
    IF top.level >= min_level THEN Append(trees, top)
    ELSE IF trees # <<>> /\ Last(trees).level <= min_level
    THEN XorChain_adjust(Front(trees),
                         XorFullTree(Last(trees).level + 1, Last(trees).cumulative_net,
                                     Last(trees).cumulative_net), min_level)
    ELSE Append(trees, [top EXCEPT !.level = min_level])

\* a variant of AigChain_merge: the new tree is never merged with the last tree
AigChain_merge_never(rw, trees, new_top) == [rw |-> rw, trees |-> trees, top |-> new_top]

\* chain_rebalance.rs:125-132: the new tree and the last tree of the same level make one
\* tree of the next level
RECURSIVE AigChain_merge(_, _, _)
AigChain_merged(c, trees, level) ==
    AigChain_merge(c.rw, trees, AigFullTree(level + 1, c.pg, c.pg))
AigChain_merge(rw, trees, new_top) ==
    IF Stopped(rw) \/ trees = <<>> \/ Last(trees).level # new_top.level
    THEN [rw |-> rw, trees |-> trees, top |-> new_top]
    ELSE AigChain_merged(PropGen_combine(rw, Last(trees).pg, new_top.pg), Front(trees),
                         new_top.level)

\* chain_rebalance.rs:134-138: from the last tree to the first, what a tree and all
\* after it add up to
RECURSIVE AigChain_cumulate(_, _, _, _)
AigChain_cumulated(c, trees, k) ==
    AigChain_cumulate(c.rw, [trees EXCEPT ![k].cumulative = c.pg], k - 1, c.pg)
AigChain_cumulate(rw, trees, k, cumulative) ==
    IF Stopped(rw) \/ k = 0 THEN [rw |-> rw, trees |-> trees, cumulative |-> cumulative]
    ELSE AigChain_cumulated(PropGen_combine(rw, trees[k].pg, cumulative), trees, k)

\* chain_rebalance.rs:145-154: the chain is stored under the result, or with the other
\* polarity under the operand of the Not cell that drives the result
AigChain_store(r, chain) ==
    LET src == find_cell_in(r.rw, r.value[1]) IN
    [rw |-> IF Stopped(r.rw) THEN r.rw
            ELSE IF IsCellOf(src, "Not")
            THEN [r.rw EXCEPT !.aig_chains = MapPut(@, src.cell.args[1],
                                                    [chain EXCEPT !.invert = ~@])]
            ELSE [r.rw EXCEPT !.aig_chains = MapPut(@, r.value[1], chain)],
     result |-> IF Stopped(r.rw) THEN ResultNone ELSE ResultValue(<<r.value[1]>>)]

\* chain_rebalance.rs:141-144: the result is the OR of the generate and the propagate of
\* the whole chain, inverted once more for a chain that is not inverted
AigChain_result(r, chain) ==
    AigChain_store(IF chain.invert \/ Stopped(r.rw) THEN r
                   ELSE add_cell_meta_output(r.rw, MkCell("Not", <<r.value[1]>>, 1), <<>>),
                   chain)
AigChain_cumulative(c, top, chain) ==
    AigChain_result(add_cell_meta_output(c.rw, MkAig(ControlNet_not(c.cumulative.p),
                                                     ControlNet_not(c.cumulative.g)), <<>>),
                    [chain EXCEPT !.full_trees = Append(c.trees, top)])
AigChain_top(m, chain) ==
    AigChain_cumulative(AigChain_cumulate(m.rw, m.trees, Len(m.trees), m.top.pg), m.top, chain)

\* chain_rebalance.rs:101-154: one more operand for the chain of net_a
AigChain_extend(rw, chain, net_b) ==
    AigChain_top(AigChain_merge(rw,
                                AigChain_adjust(Front(chain.full_trees), Last(chain.full_trees),
                                                chain.min_level),
                                LET pg == IF chain.invert THEN PropGen_or(ControlNet_not(net_b))
                                          ELSE PropGen_and(net_b)
                                IN  AigFullTree(chain.min_level, pg, pg)),
                 chain)

\* chain_rebalance.rs:156-192: the chain of two operands that starts at this cell
AigChain_new(output, net_a, net_b, level_a) ==
    IF net_a.neg
    THEN [invert |-> TRUE, min_level |-> level_a - 1,
          full_trees |-> <<AigFullTree(level_a, PropGen_and(ControlNet_not(net_a)),
                                       [p |-> ControlNet_not(net_a), g |-> ControlNet_not(net_b)]),
                           AigFullTree(level_a - 1, PropGen_or(ControlNet_not(net_b)),
                                       PropGen_or(ControlNet_not(net_b)))>>]
    ELSE [invert |-> FALSE, min_level |-> level_a - 1,
          full_trees |-> <<AigFullTree(level_a, PropGen_and(net_a),
                                       PropGen_and(ControlNet_Pos(output))),
                           AigFullTree(level_a - 1, PropGen_and(net_b), PropGen_and(net_b))>>]

\* chain_rebalance.rs:99-194: net_a is the operand of the higher level
ChainRebalance_aig(rw, output, net_a, net_b, level_a, level_b) ==
    IF net_a.net \in DOMAIN rw.aig_chains
    THEN AigChain_extend(rw, [rw.aig_chains[net_a.net]
                                 EXCEPT !.invert = IF net_a.neg THEN ~@ ELSE @,
                                        !.min_level = Max(@, level_b)], net_b)
    ELSE [rw |-> [rw EXCEPT !.aig_chains = MapPut(@, output,
                                                  AigChain_new(output, net_a, net_b, level_a))],
          result |-> ResultNone]

\* chain_rebalance.rs:237-244: the new operand and the last tree of the same level make
\* one tree of the next level
RECURSIVE XorChain_merge(_, _, _, _)
XorChain_merged(r, trees, level_top) == XorChain_merge(r.rw, trees, r.value[1], level_top + 1)
XorChain_merge(rw, trees, net_top, level_top) ==
    IF Stopped(rw) \/ trees = <<>> \/ Last(trees).level # level_top
    THEN [rw |-> rw, trees |-> trees, net |-> net_top, level |-> level_top]
    ELSE XorChain_merged(add_cell_meta_output(rw, MkCell("Xor", <<net_top, Last(trees).net>>, 1),
                                              <<>>),
                         Front(trees), level_top)

\* chain_rebalance.rs:246-251: from the last tree to the first, the Xor of a tree and
\* all after it
RECURSIVE XorChain_cumulate(_, _, _, _)
XorChain_cumulated(r, trees, k) ==
    XorChain_cumulate(r.rw, [trees EXCEPT ![k].cumulative_net = r.value[1]], k - 1, r.value[1])
XorChain_cumulate(rw, trees, k, cumulative_net) ==
    IF Stopped(rw) \/ k = 0 THEN [rw |-> rw, trees |-> trees, cumulative_net |-> cumulative_net]
    ELSE XorChain_cumulated(add_cell_meta_output(rw, MkCell("Xor", <<cumulative_net, trees[k].net>>,
                                                            1), <<>>),
                            trees, k)

\* chain_rebalance.rs:253-255: the chain is stored under the Xor of all its trees
XorChain_store(c, top, chain) ==
    [rw |-> IF Stopped(c.rw) THEN c.rw
            ELSE [c.rw EXCEPT !.xor_chains =
                                  MapPut(@, c.cumulative_net,
                                         [chain EXCEPT !.full_trees = Append(c.trees, top)])],
     result |-> IF Stopped(c.rw) THEN ResultNone ELSE ResultValue(<<c.cumulative_net>>)]
XorChain_top(m, chain) ==
    XorChain_store(XorChain_cumulate(m.rw, m.trees, Len(m.trees), m.net),
                   XorFullTree(m.level, m.net, m.net), chain)

\* chain_rebalance.rs:219-255: one more operand for the chain of net_a
XorChain_extend(rw, chain, net_b) ==
    XorChain_top(XorChain_merge(rw,
                                XorChain_adjust(Front(chain.full_trees), Last(chain.full_trees),
                                                chain.min_level),
                                net_b, chain.min_level),
                 chain)

\* chain_rebalance.rs:210-217: a chain of one tree takes the operand as its second tree
\* when the operand is of a lower level, and the cell stays as it is
XorChain_single(rw, chain, output, net_b, level_b) ==
    IF chain.full_trees[1].level > level_b
    THEN [rw EXCEPT !.xor_chains =
                        MapPut(@, output,
                               [chain EXCEPT !.full_trees =
                                   <<[chain.full_trees[1] EXCEPT !.cumulative_net = output],
                                     XorFullTree(level_b, net_b, net_b)>>])]
    ELSE rw

\* chain_rebalance.rs:257-264: the chain of two operands that starts at this cell
XorChain_new(output, net_a, net_b, level_a) ==
    [min_level |-> level_a - 1,
     full_trees |-> <<XorFullTree(level_a, net_a, output),
                      XorFullTree(level_a - 1, net_b, net_b)>>]

\* chain_rebalance.rs:206-266: net_a is the operand of the higher level
ChainRebalance_xor(rw, output, net_a, net_b, level_a, level_b) ==
    IF net_a \notin DOMAIN rw.xor_chains
    THEN [rw |-> [rw EXCEPT !.xor_chains = MapPut(@, output,
                                                  XorChain_new(output, net_a, net_b, level_a))],
          result |-> ResultNone]
    ELSE IF Len(rw.xor_chains[net_a].full_trees) = 1
    THEN [rw |-> XorChain_single(rw, [rw.xor_chains[net_a] EXCEPT !.min_level = Max(@, level_b)],
                                 output, net_b, level_b),
          result |-> ResultNone]
    ELSE XorChain_extend(rw, [rw.xor_chains[net_a] EXCEPT !.min_level = Max(@, level_b)], net_b)

\* chain_rebalance.rs:92-98, 197-205: the operands in the order of their levels
ChainRebalance_ordered(rw, kind, output, net1, net2, level1, level2) ==
    IF kind = "Aig"
    THEN ChainRebalance_aig(rw, output, IF level1 < level2 THEN net2 ELSE net1,
                            IF level1 < level2 THEN net1 ELSE net2,
                            Max(level1, level2), IF level1 < level2 THEN level1 ELSE level2)
    ELSE ChainRebalance_xor(rw, output, IF level1 < level2 THEN net2.net ELSE net1.net,
                            IF level1 < level2 THEN net1.net ELSE net2.net,
                            Max(level1, level2), IF level1 < level2 THEN level1 ELSE level2)

\* chain_rebalance.rs:78-270: ChainRebalance::rewrite
ChainRebalance_rewrite(rw, cell, output) ==
    IF Len(output) # 1 \/ cell.kind \notin {"Aig", "Xor"} THEN [rw |-> rw, result |-> ResultNone]
    ELSE LET net1 == IF cell.kind = "Aig" THEN AigOperand(cell, 1) ELSE ControlNet_Pos(cell.args[1])
             net2 == IF cell.kind = "Aig" THEN AigOperand(cell, 2) ELSE ControlNet_Pos(cell.args[2])
             level1 == LevelAnalysis_get(rw.levels, net1.net)
             level2 == LevelAnalysis_get(rw.levels, net2.net)
         IN  IF level1 = level2 THEN [rw |-> rw, result |-> ResultNone]
             ELSE ChainRebalance_ordered(rw, cell.kind, output[1], net1, net2, level1, level2)

\* rule.rewrite(cur_cell, cur_meta, output, self) of the rule set of that name; the
\* rewrite() of LevelAnalysis is the default of the trait (rewrite.rs:50-59)
rewrite_in(rw, rule, cell, output) ==
    CASE rule = "Normalize" -> [rw |-> rw, result |-> Normalize_rewrite(cell)]
      [] rule = "SimpleAigOpt" -> SimpleAigOpt_rewrite(rw, cell)
      [] rule = "TreeRebalance" -> TreeRebalance_rewrite(rw, cell, output)
      [] rule = "ChainRebalance" -> ChainRebalance_rewrite(rw, cell, output)
      [] OTHER -> [rw |-> rw, result |-> ResultNone]

\* rewrite.rs:201-207: replace_net and net_replaced for every pair of
\* output.iter().zip(value), from the k-th on
RECURSIVE replace_value_in(_, _, _, _)
replace_value_in(rw, output, value, k) ==
    IF k > Len(output) \/ rw.panic THEN rw
    ELSE replace_value_in([net_replaced_in(replace_net_in(rw, output[k], value[k]),
                                           output[k], value[k])
                              EXCEPT !.processed = @ \cup {output[k]}], output, value, k + 1)

\* rewrite.rs:161, 214: the operands of a cell through Design::map_net_new
MapOperands_in(rw, cell) ==
    [cell EXCEPT !.args = [k \in DOMAIN cell.args |->
                              IF cell.args[k] \in DOMAIN rw.replaced_nets
                              THEN rw.replaced_nets[cell.args[k]] ELSE cell.args[k]]]

\* rewrite.rs:162-210: run() on a TopoSortItem::Cell after process_cell has returned r
run_cell_processed(r, index, cell, output) ==
    IF Stopped(r.rw) THEN r.rw
    ELSE IF r.result.kind = "Value"
    THEN IF Len(r.result.value) # Len(output) THEN [r.rw EXCEPT !.panic = TRUE]
         ELSE [replace_value_in(r.rw, output, r.result.value, 1) EXCEPT !.unalived = @ \cup {index}]
    ELSE IF r.result.kind = "None"
    THEN [cell_added_in(r.rw, cell, output)
             EXCEPT !.cache = CacheInsert(@, cell, output), !.processed = @ \cup SeqSet(output)]
    ELSE [cell_added_in(CellRef_replace_in(r.rw, index, r.result.cell), r.result.cell, output)
             EXCEPT !.cache = CacheInsert(@, r.result.cell, output),
                    !.processed = @ \cup SeqSet(output)]

run_cell_mapped(rw, index, cell, output) ==
    run_cell_processed(process_cell(rw, cell, output), index, cell, output)

\* rewrite.rs:158-211: run() on a TopoSortItem::Cell
run_cell_in(rw, index) ==
    run_cell_mapped(rw, index, MapOperands_in(rw, CellAt(rw.cells, index)), CellOutput(rw.cells, index))

\* rewrite.rs:216-222: run() on a TopoSortItem::CellBit after the slice is added
run_cell_bit_added(r, net) ==
    IF Stopped(r.rw) THEN r.rw
    ELSE [net_replaced_in(replace_net_in(r.rw, net, r.value[1]), net, r.value[1])
             EXCEPT !.processed = @ \cup {net}]

\* rewrite.rs:212-223: run() on a TopoSortItem::CellBit
run_cell_bit_in(rw, index, bit) ==
    run_cell_bit_added(
        add_cell_meta_output(rw, MapOperands_in(rw, slice(CellAt(rw.cells, index), bit)),
                             <<from_cell_index(index + bit)>>),
        from_cell_index(index + bit))

\* one item of the worklist of run()
run_item_in(rw, item) ==
    IF item.bit < 0 THEN run_cell_in(rw, item.cell) ELSE run_cell_bit_in(rw, item.cell, item.bit)

\* the side tables of the rule sets when a pass starts (level.rs:10-12,
\* tree_rebalance.rs:19-49, chain_rebalance.rs:72-74)
TablesNew(cs, rule_sets) ==
    LET tree == \E r \in DOMAIN rule_sets : rule_sets[r] = "TreeRebalance" IN
    [levels |-> EmptyMap, aig_trees |-> EmptyMap, xor_trees |-> EmptyMap,
     inner_aig |-> IF tree THEN inner_aig_of(cs) ELSE {},
     inner_xor |-> IF tree THEN inner_xor_of(cs) ELSE {},
     aig_chains |-> EmptyMap, xor_chains |-> EmptyMap]

\* the pass as it stands between two items of the worklist
RewriterNow ==
    [rules |-> rewriter.rules, cells |-> cells, added |-> added_cells,
     replaced_cells |-> replaced_cells, unalived |-> unalived_cells,
     replaced_nets |-> replaced_nets, processed |-> rewriter.processed,
     cache |-> rewriter.cache, restarts |-> 0, spins |-> FALSE, gave_up |-> FALSE,
     panic |-> FALSE] @@ rewriter.tables

\* rewrite.rs:156-224: one turn of the for loop of run(), with everything the rule sets
\* do in it
visit_item ==
    /\ pc = "run"
    /\ rewriter.item < Len(rewriter.worklist)
    /\ \E item \in {rewriter.worklist[rewriter.item + 1]} :
       \E rw \in {run_item_in(RewriterNow, item)} :
           /\ added_cells' = rw.added
           /\ replaced_cells' = rw.replaced_cells
           /\ unalived_cells' = rw.unalived
           /\ replaced_nets' = rw.replaced_nets
           /\ rewriter' = [rewriter EXCEPT !.item = @ + 1, !.processed = rw.processed,
                                           !.cache = rw.cache, !.restarts = rw.restarts,
                                           !.tables = [f \in DOMAIN rewriter.tables |-> rw[f]]]
           /\ pc' = IF rw.panic THEN "panic"
                    ELSE IF rw.spins THEN "sweeping"
                    ELSE IF rw.gave_up THEN "gave_up"
                    ELSE "run"
           /\ hist' = [hist EXCEPT !.visits = Append(@, item)]
    /\ UNCHANGED <<cells, caller, did_change>>

\* Design::rewrite(rule_sets) with known rule sets, up to the worklist of run()
Design_rewrite_known(rule_sets) ==
    /\ rewriter = NoRewriter
    /\ pc = "idle"
    /\ LET sorted == topo_sort(cells) IN
       IF is_changed \/ ~sorted.ok
       THEN /\ pc' = "panic"
            /\ UNCHANGED <<rewriter, hist>>
       ELSE /\ pc' = "run"
            /\ rewriter' = [NoRewriter EXCEPT !.worklist = sorted.worklist, !.rules = rule_sets,
                                              !.tables = TablesNew(cells, rule_sets)]
            /\ hist' = [NoHist EXCEPT !.original = cells, !.designs = Append(hist.designs, cells)]
    /\ UNCHANGED <<cells, queue, caller, did_change>>

(***************************************************************************)
(* design.rewrite(&[&SimpleAigOpt, &Normalize]) (tests/simple_aig.rs:19)   *)
(* on the designs of AigInputs inputs a, b and c, AigGates slots of gates  *)
(* and an output of two bits.  The operands of a gate are inputs,          *)
(* constants, and the outputs of the slots before it ("prev", "far") or    *)
(* after it ("next", which closes a combinational loop).                   *)
(***************************************************************************)
AigInputs == 3
AigGates == 3

AigBlueprint(kind, len, to, neg) == [kind |-> kind, len |-> len, to |-> to, neg |-> neg]

AigBlueprints ==
    {AigBlueprint("Aig", 1, <<"a", "b">>, neg) :
        neg \in {<<FALSE, FALSE>>, <<TRUE, TRUE>>, <<TRUE, FALSE>>, <<FALSE, TRUE>>}}
    \cup {AigBlueprint("Aig", 1, <<"prev", "a">>, neg) :
        neg \in {<<FALSE, FALSE>>, <<TRUE, FALSE>>, <<FALSE, TRUE>>}}
    \cup {AigBlueprint("Aig", 1, <<"far", "prev">>, neg) :
        neg \in {<<FALSE, FALSE>>, <<TRUE, TRUE>>, <<TRUE, FALSE>>}}
    \cup {AigBlueprint("Aig", 1, <<"a", "c">>, <<FALSE, FALSE>>),
          AigBlueprint("Aig", 1, <<"a", "next">>, <<FALSE, FALSE>>),
          AigBlueprint("Aig", 1, <<"prev", "one">>, <<FALSE, TRUE>>),
          AigBlueprint("Xor", 1, <<"a", "b">>, <<>>),
          AigBlueprint("Xor", 1, <<"a", "c">>, <<>>),
          AigBlueprint("Xor", 1, <<"prev", "a">>, <<>>),
          AigBlueprint("Xor", 1, <<"far", "prev">>, <<>>),
          AigBlueprint("Xor", 1, <<"prev", "undef">>, <<>>),
          AigBlueprint("Xor", 2, <<"a", "b", "b", "prev">>, <<>>),
          AigBlueprint("Not", 1, <<"a">>, <<>>),
          AigBlueprint("Not", 1, <<"prev">>, <<>>),
          AigBlueprint("Not", 2, <<"prev", "far">>, <<>>),
          AigBlueprint("And", 1, <<"prev", "a">>, <<>>),
          AigBlueprint("Or", 1, <<"a", "b">>, <<>>),
          AigBlueprint("Or", 2, <<"prev", "a", "b", "far">>, <<>>)}

\* the net an operand of the gate in slot index stands for; the gates are the slots from
\* AigInputs to last
AigOperandAt(to, index, last) ==
    CASE to = "a" -> from_cell_index(0)
      [] to = "b" -> from_cell_index(1)
      [] to = "c" -> from_cell_index(2)
      [] to = "d" -> from_cell_index(3)
      [] to = "zero" -> ZERO
      [] to = "one" -> ONE
      [] to = "undef" -> UNDEF
      [] to = "prev" -> from_cell_index(index - 1)
      [] to = "far" -> from_cell_index(index - 2)
      [] to = "next" -> from_cell_index(IF index < last THEN index + 1 ELSE AigInputs)

AigCellOf(blueprint, index, last) ==
    [MkCell(blueprint.kind, [k \in DOMAIN blueprint.to |-> AigOperandAt(blueprint.to[k], index, last)],
            blueprint.len) EXCEPT !.neg = blueprint.neg]

\* the gates from slot index on; a gate of two bits that would not fit gives way to its
\* first bit
RECURSIVE AigGatesFrom(_, _, _)
AigGatesFrom(row, index, last) ==
    IF index > last THEN <<>>
    ELSE LET cell == AigCellOf(row[index], index, last)
             fits == IF index + output_len(cell) - 1 <= last THEN cell ELSE slice(cell, 0)
         IN  SlotsOf(fits, index) \o AigGatesFrom(row, index + output_len(fits), last)

AigDesign(row, inputs, gates) ==
    LET last == inputs + gates - 1 IN
    [k \in 1..inputs |-> MkCell("Input", <<>>, 1)]
    \o AigGatesFrom(row, inputs, last)
    \o <<MkCell("Output", <<from_cell_index(last), from_cell_index(last - 1)>>, 0)>>

AigInit ==
    /\ \E row \in [AigInputs..(AigInputs + AigGates - 1) -> AigBlueprints] :
          cells = AigDesign(row, AigInputs, AigGates)
    /\ added_cells = <<>>
    /\ replaced_cells = EmptyMap
    /\ unalived_cells = {}
    /\ replaced_nets = EmptyMap
    /\ pc = "idle"
    /\ caller = "none"
    /\ did_change = FALSE
    /\ hist = NoHist
    /\ rewriter = NoRewriter

\* tests/simple_aig.rs:19: design.rewrite(&[&SimpleAigOpt, &Normalize])
aig_begin == Design_rewrite_known(<<"SimpleAigOpt", "Normalize">>)

AigNext ==
    \/ aig_begin
    \/ visit_item
    \/ run_return
    \/ rewrite_compact
    \/ apply_unalive
    \/ apply_replace
    \/ apply_extend
    \/ apply_nets
    \/ compact_body

SpecAig == AigInit /\ [][AigNext]_vars

(***************************************************************************)
(* The value of a net of a design without combinational cycles under an    *)
(* assignment to its inputs.  A bit is "0", "1" or "X"; Aig(a, b) is       *)
(* f(a) AND f(b), where f applies the polarity.                            *)
(***************************************************************************)
Bits == {"0", "1", "X"}
BitNot(v) == IF v = "0" THEN "1" ELSE IF v = "1" THEN "0" ELSE "X"
BitAnd(v, w) == IF v = "0" \/ w = "0" THEN "0" ELSE IF v = "1" /\ w = "1" THEN "1" ELSE "X"
BitOr(v, w) == BitNot(BitAnd(BitNot(v), BitNot(w)))
BitXor(v, w) == IF v = "X" \/ w = "X" THEN "X" ELSE IF v = w THEN "0" ELSE "1"
BitInvert(v, invert) == IF invert THEN BitNot(v) ELSE v

\* the slot of the cell that drives the output bit in slot index
SlotStart(cs, index) == IF CellAt(cs, index).kind = "Skip" THEN CellAt(cs, index).start ELSE index
\* how many inputs a design has before slot index
InputRank(cs, index) == Cardinality({i \in 0..(index - 1) : CellAt(cs, i).kind = "Input"})

RECURSIVE Eval(_, _, _)
\* the bit of a cell from the values of its operands
EvalCell(cs, env, cell, start, bit) ==
    CASE cell.kind = "Input" -> env[InputRank(cs, start)]
      [] cell.kind = "Buf" -> Eval(cs, env, cell.args[bit + 1])
      [] cell.kind = "Not" -> BitNot(Eval(cs, env, cell.args[bit + 1]))
      [] cell.kind = "And" ->
            BitAnd(Eval(cs, env, cell.args[bit + 1]), Eval(cs, env, cell.args[cell.len + bit + 1]))
      [] cell.kind = "Or" ->
            BitOr(Eval(cs, env, cell.args[bit + 1]), Eval(cs, env, cell.args[cell.len + bit + 1]))
      [] cell.kind = "Xor" ->
            BitXor(Eval(cs, env, cell.args[bit + 1]), Eval(cs, env, cell.args[cell.len + bit + 1]))
      [] cell.kind = "Aig" ->
            BitAnd(BitInvert(Eval(cs, env, cell.args[1]), cell.neg[1]),
                   BitInvert(Eval(cs, env, cell.args[2]), cell.neg[2]))
      [] OTHER -> "X"

Eval(cs, env, net) ==
    IF net = ZERO THEN "0"
    ELSE IF net = ONE THEN "1"
    ELSE IF net = UNDEF THEN "X"
    ELSE EvalCell(cs, env, CellAt(cs, SlotStart(cs, as_cell_index(net))),
                  SlotStart(cs, as_cell_index(net)),
                  as_cell_index(net) - SlotStart(cs, as_cell_index(net)))

\* the operands of the outputs of a design, in the order of the design
OutputNetsOf(cs) ==
    LET outs == SelectSeq(cs, LAMBDA c : c.kind = "Output")
        RECURSIVE Flat(_)
        Flat(k) == IF k > Len(outs) THEN <<>> ELSE outs[k].args \o Flat(k + 1)
    IN  Flat(1)

\* the values of the primary outputs under the assignment env
EvalOutputs(cs, env) == [k \in DOMAIN OutputNetsOf(cs) |-> Eval(cs, env, OutputNetsOf(cs)[k])]

\* the assignments to the inputs of the Aig designs
AigAssignments == [0..(AigInputs - 1) -> Bits]

\* the design a pass started on, and: the pass has returned on a design that had no
\* combinational cycle
PassBefore == hist.designs[1]
PassedAcyclic == RewriteReturned /\ Len(hist.designs) > 0 /\ ~HasCombinationalCycle(PassBefore)

\* the values after a pass are the values before it, for an output that was "0" or "1"
Refines(before, after) ==
    /\ Len(before) = Len(after)
    /\ \A k \in DOMAIN before : before[k] \in {"0", "1"} => after[k] = before[k]

\* C15 as stated: for every assignment to the inputs, every primary output has the same
\* value before and after the SimpleAigOpt pass
C15_Original ==
    PassedAcyclic =>
        /\ ~HasCombinationalCycle(cells)
        /\ \A env \in AigAssignments : EvalOutputs(cells, env) = EvalOutputs(PassBefore, env)

\* C15: for every assignment to the inputs, every primary output that is 0 or 1 before
\* the SimpleAigOpt pass has the same value after it; an output that is X may take any
\* value
C15_OutputsRefine ==
    PassedAcyclic =>
        /\ ~HasCombinationalCycle(cells)
        /\ \A env \in AigAssignments : Refines(EvalOutputs(PassBefore, env), EvalOutputs(cells, env))

\* a pass that has rewritten the cell of an output, whose value is not the same for all
\* assignments
C15_Witness ==
    /\ PassedAcyclic
    /\ cells # PassBefore
    /\ \E env1, env2 \in AigAssignments :
          /\ EvalOutputs(PassBefore, env1)[1] = "0"
          /\ EvalOutputs(PassBefore, env2)[1] = "1"
          /\ EvalOutputs(cells, env1)[1] = "0"

(***************************************************************************)
(* The logic level of a net of a design without combinational cycles, as   *)
(* LevelAnalysis records it when the cells are added operands first        *)
(* (level.rs:20-39).                                                       *)
(***************************************************************************)
RECURSIVE LevelOf(_, _)
\* the levels of the operands of a cell that are no constants
OperandLevels(cs, cell) == [net \in {x \in ArgSet(cell) : ~is_const(x)} |-> LevelOf(cs, net)]

\* the level that cell_added records for the output bit `net` of the cell in slot start
LevelOfOutput(cs, start, net) ==
    LevelAnalysis_get(LevelAnalysis_cell_added(OperandLevels(cs, CellAt(cs, start)),
                                               CellAt(cs, start), CellOutput(cs, start)), net)

LevelOf(cs, net) ==
    IF is_const(net) THEN 0 ELSE LevelOfOutput(cs, SlotStart(cs, as_cell_index(net)), net)

\* the changes of the pass of SpecAig are applied, the design is not yet compacted, and
\* neither the design before nor the design after has a combinational cycle
AigApplied ==
    /\ pc = "compact"
    /\ hist.ran
    /\ Len(hist.designs) > 0
    /\ ~HasCombinationalCycle(PassBefore)
    /\ ~HasCombinationalCycle(cells)

\* the output nets of the And, Or, Xor, Not and Aig cells of a design
BooleanKinds == {"Not", "And", "Or", "Xor", "Aig"}
BooleanNets(cs) ==
    UNION {OutputNets(cs, i) : i \in {j \in LiveIndices(cs) : CellAt(cs, j).kind \in BooleanKinds}}

\* the net is a constant or an output bit of a cell of the design
IsDriven(cs, net) == is_const(net) \/ net \in LiveNets(cs)

\* what a net of the design before the pass has become (design.rs:191-196)
ResultNet(net) == visit_mut_net(hist.nets, net)

\* C17: the net that the SimpleAigOpt pass leaves for the output of a Not, And, Or, Xor or
\* Aig cell is at most at the logic level that the output had before the pass
C17_LevelNotIncreased ==
    AigApplied =>
        \A net \in BooleanNets(PassBefore) :
            /\ IsDriven(cells, ResultNet(net))
            /\ LevelOf(cells, ResultNet(net)) <= LevelOf(PassBefore, net)

\* a pass that has replaced a net of level two by a net of level one, and has rewritten
\* a cell whose output stays at its level
C17_Witness ==
    /\ AigApplied
    /\ \E net \in BooleanNets(PassBefore) :
          /\ ResultNet(net) # net
          /\ LevelOf(PassBefore, net) = 2
          /\ LevelOf(cells, ResultNet(net)) = 1
    /\ \E net \in BooleanNets(PassBefore) :
          /\ CellAt(cells, SlotStart(cells, as_cell_index(ResultNet(net))))
                # CellAt(PassBefore, SlotStart(PassBefore, as_cell_index(net)))
          /\ LevelOf(PassBefore, net) = LevelOf(cells, ResultNet(net))
          /\ LevelOf(PassBefore, net) >= 1

\* C18 as stated: the rule loop with SimpleAigOpt terminates on every cell; no cell makes
\* process_cell start its loop again for ever, calls of add_cell inside the rules included
C18_Original == pc \notin {"sweeping", "gave_up"}

\* the cells of a design that an output reads, through any number of cells
OutputCone(cs) ==
    DependencyClosure(cs, {i \in LiveIndices(cs) : CellAt(cs, i).kind = "Output"})

\* C19: after a SimpleAigOpt pass every Not, And, Or, Xor or Aig cell of the design is an
\* Aig, a Xor of one bit or a Not of one bit: no And, no Or, and no Not or Xor of several
\* bits remains
C19_OnlyAigXorNot ==
    RewriteReturned =>
        \A i \in LiveIndices(cells) :
            /\ CellAt(cells, i).kind \notin {"And", "Or"}
            /\ CellAt(cells, i).kind \in {"Not", "Xor"} => output_len(CellAt(cells, i)) = 1

\* a pass has returned on a design whose outputs read an And or an Or cell and a Not or
\* Xor of two bits, and has left Aig cells
C19_Witness ==
    /\ RewriteReturned
    /\ Len(hist.designs) > 0
    /\ \E i, j \in OutputCone(PassBefore) :
          /\ CellAt(PassBefore, i).kind \in {"And", "Or"}
          /\ CellAt(PassBefore, j).kind \in {"Not", "Xor"}
          /\ output_len(CellAt(PassBefore, j)) = 2
    /\ \E i \in LiveIndices(cells) : CellAt(cells, i).kind = "Aig"

(***************************************************************************)
(* tree_rebalance(&mut design) (tree_rebalance.rs:165-169) on the designs  *)
(* of BalanceInputs inputs a, b, c and d, BalanceGates slots of Aig and Xor      *)
(* gates and an output that reads the last gate.                           *)
(***************************************************************************)
BalanceInputs == 4
BalanceGates == 4

BalanceBlueprints ==
    {AigBlueprint("Aig", 1, <<"a", "b">>, <<FALSE, FALSE>>),
     AigBlueprint("Aig", 1, <<"prev", "c">>, <<FALSE, FALSE>>),
     AigBlueprint("Aig", 1, <<"prev", "d">>, <<FALSE, FALSE>>),
     AigBlueprint("Aig", 1, <<"prev", "a">>, <<FALSE, TRUE>>),
     AigBlueprint("Aig", 1, <<"prev", "far">>, <<FALSE, FALSE>>),
     AigBlueprint("Aig", 1, <<"prev", "d">>, <<TRUE, FALSE>>),
     AigBlueprint("Aig", 1, <<"c", "d">>, <<FALSE, FALSE>>),
     AigBlueprint("Xor", 1, <<"a", "b">>, <<>>),
     AigBlueprint("Xor", 1, <<"prev", "c">>, <<>>),
     AigBlueprint("Xor", 1, <<"prev", "d">>, <<>>),
     AigBlueprint("Xor", 1, <<"prev", "far">>, <<>>),
     AigBlueprint("Xor", 1, <<"prev", "a">>, <<>>),
     AigBlueprint("Xor", 1, <<"prev", "undef">>, <<>>),
     AigBlueprint("Xor", 1, <<"c", "d">>, <<>>)}

BalanceDesign(row, inputs, gates) ==
    [k \in 1..inputs |-> MkCell("Input", <<>>, 1)]
    \o AigGatesFrom(row, inputs, inputs + gates - 1)
    \o <<MkCell("Output", <<from_cell_index(inputs + gates - 1)>>, 0)>>

\* the gates that take their operands from the inputs of the design: the first gate is
\* one of them
BalanceFirst ==
    {blueprint \in BalanceBlueprints :
        \A k \in DOMAIN blueprint.to : blueprint.to[k] \in {"a", "b", "c", "d"}}

BalanceInit ==
    /\ \E row \in [BalanceInputs..(BalanceInputs + BalanceGates - 1) -> BalanceBlueprints] :
          /\ row[BalanceInputs] \in BalanceFirst
          /\ cells = BalanceDesign(row, BalanceInputs, BalanceGates)
    /\ added_cells = <<>>
    /\ replaced_cells = EmptyMap
    /\ unalived_cells = {}
    /\ replaced_nets = EmptyMap
    /\ pc = "idle"
    /\ caller = "none"
    /\ did_change = FALSE
    /\ hist = NoHist
    /\ rewriter = NoRewriter

\* tree_rebalance.rs:165-169: design.rewrite(&[&Normalize, &SimpleAigOpt, &levels, &rebalance])
tree_begin == Design_rewrite_known(<<"Normalize", "SimpleAigOpt", "LevelAnalysis", "TreeRebalance">>)

\* chain_rebalance.rs:290-294: design.rewrite(&[&Normalize, &SimpleAigOpt, &levels, &rebalance])
chain_begin == Design_rewrite_known(<<"Normalize", "SimpleAigOpt", "LevelAnalysis", "ChainRebalance">>)

BalanceNext ==
    \/ tree_begin
    \/ chain_begin
    \/ visit_item
    \/ run_return
    \/ rewrite_compact
    \/ apply_unalive
    \/ apply_replace
    \/ apply_extend
    \/ apply_nets
    \/ compact_body

SpecBalance == BalanceInit /\ [][BalanceNext]_vars

\* the assignments to the inputs of the designs of the balancing passes
BalanceAssignments == [0..(BalanceInputs - 1) -> Bits]

\* C16 as stated: for every assignment to the inputs, every output of the design has the
\* same value before and after a balancing pass
C16_Original ==
    PassedAcyclic =>
        /\ ~HasCombinationalCycle(cells)
        /\ \A env \in BalanceAssignments : EvalOutputs(cells, env) = EvalOutputs(PassBefore, env)

\* C16: for every assignment to the inputs, every output of the design that is 0 or 1
\* before a balancing pass has the same value after it; an output that is X may take any
\* value
C16_OutputsRefine ==
    PassedAcyclic =>
        /\ ~HasCombinationalCycle(cells)
        /\ \A env \in BalanceAssignments : Refines(EvalOutputs(PassBefore, env), EvalOutputs(cells, env))

\* a chain-rebalance pass has returned a design whose output is computed at a lower level
\* than before, by cells the pass has added, and is no constant
C16_Witness ==
    /\ PassedAcyclic
    /\ rewriter.rules = <<"Normalize", "SimpleAigOpt", "LevelAnalysis", "ChainRebalance">>
    /\ ~HasCombinationalCycle(cells)
    /\ LevelOf(cells, OutputNetsOf(cells)[1]) >= 2
    /\ LevelOf(cells, OutputNetsOf(cells)[1]) < LevelOf(PassBefore, OutputNetsOf(PassBefore)[1])
    /\ \E env \in BalanceAssignments : EvalOutputs(PassBefore, env) = <<"1">>
    /\ \E env \in BalanceAssignments : EvalOutputs(PassBefore, env) = <<"0">>
    /\ \A env \in BalanceAssignments : Refines(EvalOutputs(PassBefore, env), EvalOutputs(cells, env))

\* the slots of the cells added in the pass, the level that the level analysis has
\* recorded for a net, and the highest level recorded for an operand of a cell
AddedIndices == {i \in LiveIndices(cells \o added_cells) : i >= Len(cells)}
RecordedLevel(net) ==
    IF net \in DOMAIN rewriter.tables.levels THEN rewriter.tables.levels[net] ELSE 0
HighestOperand(cell) ==
    IF cell.args = <<>> THEN 0
    ELSE CHOOSE l \in {RecordedLevel(cell.args[k]) : k \in DOMAIN cell.args} :
            \A k \in DOMAIN cell.args : RecordedLevel(cell.args[k]) <= l

\* C20: at every point of a balancing pass, the level recorded for an output net of a
\* cell the pass has added is at most one above the highest level recorded for an operand
\* of that cell
C20_AddedLevelBounded ==
    \A i \in AddedIndices :
        \A net \in OutputNets(cells \o added_cells, i) :
            RecordedLevel(net) <= HighestOperand(CellAt(cells \o added_cells, i)) + 1

\* a chain-rebalance pass has added a gate over a gate it has added, each one level above
\* its operands, and a Not cell at the level of its operand
C20_Witness ==
    /\ pc = "run"
    /\ rewriter.rules = <<"Normalize", "SimpleAigOpt", "LevelAnalysis", "ChainRebalance">>
    /\ \E i, j \in AddedIndices :
          /\ CellAt(cells \o added_cells, i).kind = "Aig"
          /\ CellAt(cells \o added_cells, j).kind = "Aig"
          /\ from_cell_index(j) \in ArgSet(CellAt(cells \o added_cells, i))
          /\ RecordedLevel(from_cell_index(j)) = 1
          /\ RecordedLevel(from_cell_index(i)) = 2
          /\ HighestOperand(CellAt(cells \o added_cells, i)) = 1
    /\ \E i \in AddedIndices :
          /\ CellAt(cells \o added_cells, i).kind = "Not"
          /\ RecordedLevel(from_cell_index(i)) >= 1
          /\ RecordedLevel(from_cell_index(i)) = HighestOperand(CellAt(cells \o added_cells, i))

(***************************************************************************)
(* The balancing passes on chains (tests/chain_rebalance.rs:7-54,          *)
(* tests/tree_rebalance.rs:7-70): gates y[1] = a[0] op a[1] and            *)
(* y[k] = y[k-1] op x, where x is the input a[k], an input met three links *)
(* before, or a gate of level 1 beside the chain.  The outputs are all     *)
(* y[k], or the last one only.                                             *)
(***************************************************************************)
ChainLinks == 7

ChainOperands == {"own", "side", "back"}

\* the slots of the design: the inputs a[0] .. a[ChainLinks], the gate beside the chain,
\* the links y[1] .. y[links]
ChainSide == ChainLinks + 1
ChainLink(k) == ChainLinks + 1 + k

ChainOperandAt(to, k) ==
    CASE to = "own" -> from_cell_index(k)
      [] to = "side" -> from_cell_index(ChainSide)
      [] to = "back" -> from_cell_index(IF k >= 3 THEN k - 3 ELSE k)

ChainGate(kind, net1, net2) ==
    IF kind = "Aig" THEN MkAig(ControlNet_Pos(net1), ControlNet_Pos(net2))
    ELSE MkCell("Xor", <<net1, net2>>, 1)

ChainDesign(kind, row, links, outs) ==
    [k \in 1..(ChainLinks + 1) |-> MkCell("Input", <<>>, 1)]
    \o <<ChainGate(IF kind = "Aig" THEN "Xor" ELSE "Aig", from_cell_index(0), from_cell_index(1))>>
    \o [k \in 1..links |->
            IF k = 1 THEN ChainGate(kind, from_cell_index(0), from_cell_index(1))
            ELSE ChainGate(kind, from_cell_index(ChainLink(k - 1)), ChainOperandAt(row[k], k))]
    \o <<MkCell("Output", IF outs = "all" THEN [k \in 1..links |-> from_cell_index(ChainLink(k))]
                          ELSE <<from_cell_index(ChainLink(links))>>, 0)>>

ChainInit ==
    /\ \E kind \in {"Aig", "Xor"}, outs \in {"all", "last"}, links \in 1..ChainLinks :
       \E row \in [2..ChainLinks -> ChainOperands] :
          cells = ChainDesign(kind, row, links, outs)
    /\ added_cells = <<>>
    /\ replaced_cells = EmptyMap
    /\ unalived_cells = {}
    /\ replaced_nets = EmptyMap
    /\ pc = "idle"
    /\ caller = "none"
    /\ did_change = FALSE
    /\ hist = NoHist
    /\ rewriter = NoRewriter

ChainNext ==
    \/ tree_begin
    \/ chain_begin
    \/ visit_item
    \/ run_return
    \/ rewrite_compact
    \/ apply_unalive
    \/ apply_replace
    \/ apply_extend
    \/ apply_nets
    \/ compact_body

SpecChain == ChainInit /\ [][ChainNext]_vars

\* the AND chains that chain rebalance has stored
AigChains == {rewriter.tables.aig_chains[net] : net \in DOMAIN rewriter.tables.aig_chains}

\* C21 as stated: in every AND chain stored by chain rebalance the levels of the full
\* trees descend strictly, and none of them is below the min_level of the chain
C21_Original ==
    \A chain \in AigChains :
        /\ \A k \in 1..(Len(chain.full_trees) - 1) :
              chain.full_trees[k].level > chain.full_trees[k + 1].level
        /\ \A k \in 1..Len(chain.full_trees) : chain.full_trees[k].level >= chain.min_level

\* the least k with 2^k >= n
CeilLog2(n) == CHOOSE k \in 0..n : 2^k >= n /\ \A j \in 0..(k - 1) : 2^j < n

\* the prefix AND chain of the given number of links: y[k] = a[0] and ... and a[k], every
\* y[k] an output
PrefixAnd(links) == ChainDesign("Aig", [k \in 2..ChainLinks |-> "own"], links, "all")

\* chain_rebalance has returned on a prefix AND chain
PrefixAndRebalanced ==
    /\ PassedAcyclic
    /\ rewriter.rules = <<"Normalize", "SimpleAigOpt", "LevelAnalysis", "ChainRebalance">>
    /\ \E links \in 1..ChainLinks : PassBefore = PrefixAnd(links)

\* C22: after chain_rebalance on a prefix AND chain over inputs, the net of every output
\* y[i] has a level of at most ceil(log2(i + 1)) + 1
C22_PrefixDepth ==
    PrefixAndRebalanced =>
        /\ ~HasCombinationalCycle(cells)
        /\ Len(OutputNetsOf(cells)) = Len(OutputNetsOf(PassBefore))
        /\ \A i \in DOMAIN OutputNetsOf(cells) :
              LevelOf(cells, OutputNetsOf(cells)[i]) <= CeilLog2(i + 1) + 1

\* chain_rebalance has returned on the prefix chain of ChainLinks links: the last output
\* had level ChainLinks and has the level of a balanced tree now, and the design is not
\* the one the pass started on
C22_Witness ==
    /\ PrefixAndRebalanced
    /\ PassBefore = PrefixAnd(ChainLinks)
    /\ LevelOf(PassBefore, OutputNetsOf(PassBefore)[ChainLinks]) = ChainLinks
    /\ LevelOf(cells, OutputNetsOf(cells)[ChainLinks]) = CeilLog2(ChainLinks + 1)
    /\ ChainLinks > CeilLog2(ChainLinks + 1) + 1
    /\ cells # PassBefore

\* the places where a net is an operand: the slot of the cell and the position in it
OperandUses(cs, net) ==
    UNION {{<<i, k>> : k \in {k \in DOMAIN CellAt(cs, i).args : CellAt(cs, i).args[k] = net}} :
              i \in LiveIndices(cs)}

\* the one-bit Aig and Xor cells of the design a tree-rebalance pass runs on, and whether
\* the pass holds the output of the cell in slot i for an inner node
TreeNodes ==
    {i \in LiveIndices(cells) : CellAt(cells, i).kind \in {"Aig", "Xor"} /\ output_len(CellAt(cells, i)) = 1}
IsInner(i) ==
    IF CellAt(cells, i).kind = "Aig" THEN from_cell_index(i) \in rewriter.tables.inner_aig
    ELSE from_cell_index(i) \in rewriter.tables.inner_xor
TreeRunning == pc = "run" /\ \E r \in DOMAIN rewriter.rules : rewriter.rules[r] = "TreeRebalance"

\* C23 as stated: tree rebalance holds an Aig or Xor node for inner if and only if its
\* output has exactly one use and that use is an operand of a cell of the same operator
C23_Original ==
    TreeRunning =>
        \A i \in TreeNodes :
            IsInner(i) <=>
                \E u \in OperandUses(cells, from_cell_index(i)) :
                    /\ OperandUses(cells, from_cell_index(i)) = {u}
                    /\ CellAt(cells, u[1]).kind = CellAt(cells, i).kind

\* C23: tree rebalance holds an Aig or Xor node for inner if and only if its output has
\* exactly one use and that use is an operand of a cell of the same operator that, for an
\* Aig, takes it without inversion
C23_InnerIffSingleUse ==
    TreeRunning =>
        \A i \in TreeNodes :
            IsInner(i) <=>
                \E u \in OperandUses(cells, from_cell_index(i)) :
                    /\ OperandUses(cells, from_cell_index(i)) = {u}
                    /\ CellAt(cells, u[1]).kind = CellAt(cells, i).kind
                    /\ CellAt(cells, i).kind = "Aig" => ~CellAt(cells, u[1]).neg[u[2]]

\* a tree-rebalance pass runs on a design with an inner Aig node, an Aig node whose one
\* use is an inverted operand of an Aig, and an Aig node whose one use is in a Xor
C23_Witness ==
    /\ TreeRunning
    /\ \E i, j, k \in TreeNodes :
          /\ CellAt(cells, i).kind = "Aig" /\ CellAt(cells, j).kind = "Aig" /\ CellAt(cells, k).kind = "Aig"
          /\ IsInner(i)
          /\ ~IsInner(j)
          /\ \E u \in OperandUses(cells, from_cell_index(j)) :
                /\ OperandUses(cells, from_cell_index(j)) = {u}
                /\ CellAt(cells, u[1]).kind = "Aig"
                /\ CellAt(cells, u[1]).neg[u[2]]
          /\ ~IsInner(k)
          /\ \E u \in OperandUses(cells, from_cell_index(k)) :
                /\ OperandUses(cells, from_cell_index(k)) = {u}
                /\ CellAt(cells, u[1]).kind = "Xor"

\* tests/tree_rebalance.rs:7-14: the linear chain of links gates of one operator over
\* links + 1 inputs of which only the last gate is used
LinearChain(kind, links) == ChainDesign(kind, [k \in 2..ChainLinks |-> "own"], links, "last")
LinearChainRebalanced(kind, links) ==
    /\ RewriteReturned
    /\ rewriter.rules = <<"Normalize", "SimpleAigOpt", "LevelAnalysis", "TreeRebalance">>
    /\ Len(hist.designs) > 0
    /\ PassBefore = LinearChain(kind, links)

\* C24: after tree_rebalance of a linear And (or Xor) chain of n inputs of equal level of
\* which only the last output is used, the output is at depth ceil(log2 n)
C24_BalancedDepth ==
    (RewriteReturned /\ rewriter.rules = <<"Normalize", "SimpleAigOpt", "LevelAnalysis", "TreeRebalance">>) =>
        \A kind \in {"Aig", "Xor"}, links \in 1..ChainLinks :
            LinearChainRebalanced(kind, links) =>
                /\ Len(OutputNetsOf(cells)) = 1
                /\ LevelOf(cells, OutputNetsOf(cells)[1]) = CeilLog2(links + 1)

\* tree_rebalance has returned on the longest And chain or the longest Xor chain: the
\* output was at depth ChainLinks and is at depth ceil(log2 (ChainLinks + 1)), and the
\* design has changed
C24_Witness ==
    \E kind \in {"Aig", "Xor"} :
        /\ LinearChainRebalanced(kind, ChainLinks)
        /\ LevelOf(PassBefore, OutputNetsOf(PassBefore)[1]) = ChainLinks
        /\ LevelOf(cells, OutputNetsOf(cells)[1]) = CeilLog2(ChainLinks + 1)
        /\ CeilLog2(ChainLinks + 1) < ChainLinks
        /\ cells # PassBefore

\* a pass has failed: run() has panicked and the pass returns no design
PassFailed == pc = "panic" /\ rewriter # NoRewriter /\ Len(hist.designs) > 0

\* C25 as stated: when a pass has failed, the design is as it was before the pass started
\* and the change queue is empty, so that no queued change can be applied later
C25_Original ==
    PassFailed =>
        /\ cells = hist.designs[Len(hist.designs)]
        /\ added_cells = <<>>
        /\ replaced_cells = EmptyMap
        /\ unalived_cells = {}
        /\ replaced_nets = EmptyMap

\* the cell that run() hands to the rule sets for the next item of the worklist, when the
\* item is a whole cell: its operands are mapped through the queued replacements
NextIsCell == pc = "run" /\ rewriter.item < Len(rewriter.worklist) /\ rewriter.worklist[rewriter.item + 1].bit < 0
NextIndex == rewriter.worklist[rewriter.item + 1].cell
NextCell == MapOperands(CellAt(cells, NextIndex))
\* the next item is a Xor of one bit with a constant-X operand, and SimpleAigOpt is the
\* first rule set of the pass
NextIsXorOfUndef ==
    /\ NextIsCell
    /\ rewriter.rules[1] = "SimpleAigOpt"
    /\ NextCell.kind = "Xor"
    /\ output_len(NextCell) = 1
    /\ UNDEF \in ArgSet(NextCell)
\* the step of run() over the next item replaces its output by `net` and unalives it
NextReplacedBy(net) ==
    /\ rewriter'.item = rewriter.item + 1
    /\ replaced_nets' = MapPut(replaced_nets, from_cell_index(NextIndex), net)
    /\ unalived_cells' = unalived_cells \cup {NextIndex}

\* C27 as stated: SimpleAigOpt rewrites a Xor of one bit that has a constant-X operand to
\* the constant X, whatever the other operand is
C27_Original == [][NextIsXorOfUndef => NextReplacedBy(UNDEF)]_vars

\* C27: SimpleAigOpt rewrites a Xor of one bit that has a constant-X operand to the
\* constant X when the other operand is another net, and to the constant 0 when the other
\* operand is X as well
C27_XorOfUndef ==
    [][NextIsXorOfUndef =>
          NextReplacedBy(IF NextCell.args[1] = NextCell.args[2] THEN ZERO ELSE UNDEF)]_vars

\* a pass has replaced a Xor of an input and X by X, and the Xor of that Xor and X, which
\* run() reads as Xor of X and X, by 0
C27_Witness ==
    /\ rewriter # NoRewriter
    /\ rewriter.rules[1] = "SimpleAigOpt"
    /\ \E i, j \in LiveIndices(cells) :
          /\ CellAt(cells, i).kind = "Xor" /\ output_len(CellAt(cells, i)) = 1
          /\ CellAt(cells, i).args[2] = UNDEF
          /\ CellAt(cells, i).args[1] \in 2..(AigInputs + 1)
          /\ from_cell_index(i) \in DOMAIN replaced_nets
          /\ replaced_nets[from_cell_index(i)] = UNDEF
          /\ CellAt(cells, j) = MkCell("Xor", <<from_cell_index(i), UNDEF>>, 1)
          /\ from_cell_index(j) \in DOMAIN replaced_nets
          /\ replaced_nets[from_cell_index(j)] = ZERO

\* the pass runs with the level analysis among its rule sets
LevelsRunning == pc = "run" /\ \E r \in DOMAIN rewriter.rules : rewriter.rules[r] = "LevelAnalysis"
\* the level that LevelAnalysis::get reports after the step
ReportedNext(net) == LevelAnalysis_get(rewriter'.tables.levels, net)

\* C28: when a step of run() has replaced the net `from` by the net `to`, and so notified
\* the level analysis of net_replaced(from, to), the level reported for `from` is the level
\* reported for `to`, also when `to` has no recorded level and is reported at level 0
C28_ReplacedInheritsLevel ==
    [][LevelsRunning =>
          \A from_net \in DOMAIN replaced_nets' \ DOMAIN replaced_nets :
              ReportedNext(from_net) = ReportedNext(replaced_nets'[from_net])]_vars

\* a pass has replaced one net by a net without a recorded level, and another net by a
\* net recorded above level 0 whose level it has inherited
C28_Witness ==
    /\ LevelsRunning
    /\ \E from_net \in DOMAIN replaced_nets :
          /\ replaced_nets[from_net] \notin DOMAIN rewriter.tables.levels
          /\ LevelAnalysis_get(rewriter.tables.levels, from_net) = 0
    /\ \E from_net \in DOMAIN replaced_nets :
          /\ replaced_nets[from_net] \in DOMAIN rewriter.tables.levels
          /\ from_net \in DOMAIN rewriter.tables.levels
          /\ rewriter.tables.levels[from_net] = rewriter.tables.levels[replaced_nets[from_net]]
          /\ rewriter.tables.levels[from_net] > 0

(***************************************************************************)
(* apply() as a sequential program: once it is called, each of its loops   *)
(* (design.rs:173-200) runs as soon as the one before it has ended.  The   *)
(* while loop of design.rs:191 on a net whose replacements form a cycle    *)
(* takes steps that change nothing.                                        *)
(***************************************************************************)
ApplySteps == apply_unalive \/ apply_replace \/ apply_extend \/ apply_nets
SpecApplyLive == Init /\ [][Next]_vars /\ WF_vars(ApplySteps)

\* apply() is in one of its loops, and: apply() has ended, by a return or by a failed
\* assertion
InApply == pc \in {"unalive", "replace", "extend", "nets", "spin"}
ApplyEnded == pc \in {"idle", "compact", "panic"}

\* C29 as stated: apply() terminates for every map of net replacements that replace_net
\* has accepted, also when the replacements form a cycle
C29_Original == InApply ~> ApplyEnded

\* the next item of a tree-rebalance pass is a Xor of one bit that is no inner node
NextIsBoundaryXor ==
    /\ NextIsCell
    /\ \E r \in DOMAIN rewriter.rules : rewriter.rules[r] = "TreeRebalance"
    /\ NextCell.kind = "Xor"
    /\ output_len(NextCell) = 1
    /\ from_cell_index(NextIndex) \notin rewriter.tables.inner_xor

\* C30 as stated: at every boundary Xor node the step of tree rebalance ends without a
\* failure, whatever number of leaves the cancellation of common leaves has left
C30_Original == [][NextIsBoundaryXor => pc' = "run"]_vars

(***************************************************************************)
(* Design::validate_raw of the IR (src/ir/src/validate.rs) on one module   *)
(* of IrCells cells.  Here `cells` holds the cells of the module: a cell   *)
(* has a kind, the plane of its flags, and the ids of the cells it reads   *)
(* (cell id c is cells[c + 1]).  Every cell is one bit wide, every port is *)
(* in the port list, and the module has no instances, so of the validity   *)
(* rules the plane rules and the cycle rule are the ones that can fail.    *)
(***************************************************************************)
IrCells == 3
CellPlane == {"Param", "Main", "Debug"}
\* model.rs:606-610: the derived order Param < Main < Debug
PlaneRank(p) == CASE p = "Param" -> 0 [] p = "Main" -> 1 [] p = "Debug" -> 2

IrCell(kind, flags, vals) == [kind |-> kind, flags |-> flags, vals |-> vals]
IrCellOf(module, cid) == module[cid + 1]

\* util.rs:94-99, 101-115
is_swizzle(cell) == cell.kind \in {"Swizzle", "Slice", "Ext"}
is_comb(cell) ==
    cell.kind \in {"Buf", "BitOp", "UnaryXor", "Mux", "Switch", "Cmp", "AddSub", "Mul", "Shift"}
\* model.rs:404-412
flags_plane(cell) == cell.flags
\* util.rs:177-185: a constant or a parameter is on the param plane, a wire on the debug
\* plane, any other cell on the plane of its flags
plane(cell) ==
    IF cell.kind \in {"ConstBits", "ConstInt", "ConstFloat", "ConstString", "Param"} THEN "Param"
    ELSE IF cell.kind = "Wire" THEN "Debug"
    ELSE flags_plane(cell)
\* cells.rs:114-231
for_each_val(cell) == cell.vals

\* validate.rs:28-53: the input is on the required plane or a lower one
check_input(module, val, required) == PlaneRank(plane(IrCellOf(module, val))) <= PlaneRank(required)

\* validate.rs:64-533: CellValidator::validate has no error for the cell
CellValidator_validate(module, cell) ==
    /\ CASE cell.kind \in {"Buf", "BitOp", "Slice"} ->
               \A k \in DOMAIN cell.vals : check_input(module, cell.vals[k], plane(cell))
         [] cell.kind = "BlackboxBuf" -> check_input(module, cell.vals[1], "Main")
         [] OTHER -> TRUE
    /\ flags_plane(cell) # "Main" => (is_comb(cell) \/ is_swizzle(cell))

\* a variant of CycleExempt: the cells of the debug plane are not looked at either
CycleExempt_debug(cell) ==
    ~(is_comb(cell) \/ is_swizzle(cell)) \/ flags_plane(cell) \in {"Main", "Debug"}

\* validate.rs:608: the cells at which the search for a cycle stops
CycleExempt(cell) == ~(is_comb(cell) \/ is_swizzle(cell)) \/ flags_plane(cell) = "Main"

\* validate.rs:602-632: CellCycleChecker::check, on the checker st
RECURSIVE CellCycleChecker_check(_, _, _)
RECURSIVE CellCycleChecker_vals(_, _, _, _)
CellCycleChecker_vals(module, st, vals, k) ==
    IF k > Len(vals) THEN st
    ELSE CellCycleChecker_vals(module, CellCycleChecker_check(module, st, vals[k]), vals, k + 1)
CellCycleChecker_check(module, st, cid) ==
    IF cid \in st.checked THEN st
    ELSE IF CycleExempt(IrCellOf(module, cid)) THEN [st EXCEPT !.checked = @ \cup {cid}]
    ELSE IF cid \in st.entered
    THEN [st EXCEPT !.errs = @ \cup {cid}, !.checked = @ \cup {cid}]
    ELSE [CellCycleChecker_vals(module, [st EXCEPT !.entered = @ \cup {cid}],
                                for_each_val(IrCellOf(module, cid)), 1)
             EXCEPT !.checked = @ \cup {cid}]

\* validate.rs:738-745: the checker is run from every cell of the module
RECURSIVE CheckFrom(_, _, _)
CheckFrom(module, st, cid) ==
    IF cid >= Len(module) THEN st
    ELSE CheckFrom(module, CellCycleChecker_check(module, st, cid), cid + 1)
CycleErrors(module) == CheckFrom(module, [entered |-> {}, checked |-> {}, errs |-> {}], 0).errs

\* the cells a module of the model is made of: a BitOp reads its two inputs in either order
IrCellChoices ==
    {IrCell(kind, flags, <<val>>) :
        kind \in {"Buf", "Slice", "BlackboxBuf"}, flags \in CellPlane, val \in 0..(IrCells - 1)}
    \cup {IrCell("BitOp", flags, <<vals[1], vals[2]>>) :
            flags \in CellPlane,
            vals \in {v \in (0..(IrCells - 1)) \X (0..(IrCells - 1)) : v[1] <= v[2]}}
    \cup {IrCell(kind, flags, <<>>) : kind \in {"PortIn", "ConstBits"}, flags \in CellPlane}

ValidateInit ==
    /\ cells \in [1..IrCells -> IrCellChoices]
    /\ added_cells = <<>>
    /\ replaced_cells = EmptyMap
    /\ unalived_cells = {}
    /\ replaced_nets = EmptyMap
    /\ pc = "idle"
    /\ caller = "none"
    /\ did_change = FALSE
    /\ hist = NoHist
    /\ rewriter = NoRewriter

\* validate.rs:731-737: the loop of CellValidator over the cells; pc tells whether the
\* list of errors is still empty
validate_cells ==
    /\ pc = "idle"
    /\ pc' = IF \A k \in DOMAIN cells : CellValidator_validate(cells, cells[k])
             THEN "cells_valid" ELSE "cells_invalid"
    /\ UNCHANGED <<cells, queue, caller, did_change, hist, rewriter>>

\* validate.rs:738-745, 812-828: the loop of CellCycleChecker, and the return of
\* validate_raw: the design is valid iff the list of errors is empty
check_cycles ==
    /\ pc \in {"cells_valid", "cells_invalid"}
    /\ pc' = IF pc = "cells_valid" /\ CycleErrors(cells) = {} THEN "valid" ELSE "invalid"
    /\ UNCHANGED <<cells, queue, caller, did_change, hist, rewriter>>

ValidateNext == validate_cells \/ check_cycles
SpecValidate == ValidateInit /\ [][ValidateNext]_vars

\* the cells that a cell reads through combinational cells and swizzles only
IsCombinational(cell) == is_comb(cell) \/ is_swizzle(cell)
CombStep(module, S) ==
    {val \in 0..(Len(module) - 1) :
        \E cid \in S : IsCombinational(IrCellOf(module, cid))
                         /\ \E k \in DOMAIN IrCellOf(module, cid).vals : IrCellOf(module, cid).vals[k] = val}
RECURSIVE CombClosure(_, _)
CombClosure(module, S) ==
    IF CombStep(module, S) \subseteq S THEN S ELSE CombClosure(module, S \cup CombStep(module, S))
\* the module has a combinational cycle through a cell of the plane p
CombCycleOn(module, p) ==
    \E cid \in 0..(Len(module) - 1) :
        /\ plane(IrCellOf(module, cid)) = p
        /\ IsCombinational(IrCellOf(module, cid))
        /\ cid \in CombClosure(module, CombStep(module, {cid}))

\* C26 as stated: a module that validation has accepted has no combinational cycle on the
\* param plane, the main plane or the debug plane
C26_Original == pc = "valid" => \A p \in CellPlane : ~CombCycleOn(cells, p)

\* C26: a module that validation has accepted has no combinational cycle on the param
\* plane and none on the debug plane
C26_NoParamOrDebugCycle == pc = "valid" => \A p \in {"Param", "Debug"} : ~CombCycleOn(cells, p)

\* validation has accepted a module in which a combinational cell of the debug plane
\* reads a combinational cell of the param plane that reads a constant
C26_Witness ==
    /\ pc = "valid"
    /\ \E c, d \in 0..(IrCells - 1) :
          /\ c # d
          /\ IsCombinational(IrCellOf(cells, c)) /\ plane(IrCellOf(cells, c)) = "Debug"
          /\ IsCombinational(IrCellOf(cells, d)) /\ plane(IrCellOf(cells, d)) = "Param"
          /\ d \in CombStep(cells, {c})
          /\ \E e \in CombStep(cells, {d}) : IrCellOf(cells, e).kind = "ConstBits"

====
